---------------------------- MODULE Spec2Model ----------------------------
(***************************************************************************)
(* A model of the Captain Jack Sparrow chatbot: the sliding-window Memory  *)
(* (src/src/memory.py), the Calculator tool (src/src/tools.py), the        *)
(* VectorStore retrieval layer (src/src/vector_store.py) and the           *)
(* SparrowBot orchestrator (src/src/chatbot.py).                           *)
(*                                                                         *)
(* Five specifications share the variables:                                *)
(*   SpecMemory  a stand-alone Memory(max_turns) driven by add_message     *)
(*               and clear;                                                *)
(*   Spec        a SparrowBot after construction, driven by chat and       *)
(*               reset_conversation;                                       *)
(*   SpecCalc    the Calculator applied to bounded input strings;          *)
(*   SpecArith   the Calculator applied to arithmetic terms written out;   *)
(*   SpecStore   a stand-alone VectorStore driven by add_documents,        *)
(*               load_from_file and query.                                 *)
(*                                                                         *)
(* Text is modelled by TLA+ strings; where the code looks inside a string  *)
(* (the trigger regexes, the Python tokenizer) the text is the sequence of *)
(* its characters.  A number is a rational n/d with a flag telling a       *)
(* Python float from a Python int and, for a float, a bound on its         *)
(* rounding error and the sign of a zero; where the model does not follow  *)
(* a value or an outcome it says so (NoExact, Undetermined).               *)
(***************************************************************************)
EXTENDS Integers, Sequences, FiniteSets, TLC

VARIABLES
    max_turns,             \* Memory.max_turns
    conversation_history,  \* Memory.conversation_history
    clock,                 \* ticks of datetime.now(), one per message
    appended,              \* history variable: messages added since the last clear
    model,                 \* SparrowBot.model: "None" or "Gemini"
    collection,            \* VectorStore.collection: the stored documents, in insertion order
    loaded,                \* history variable: the non-empty document lists added so far
    last,                  \* history variable: what the last call did and returned
    calls,                 \* number of calls made so far (bounds the run)
    expression,            \* the input handed to the Calculator
    tree,                  \* history variable: the arithmetic term the input writes down
    result                 \* the Calculator's answer to it

vars == <<max_turns, conversation_history, clock, appended, model, collection,
          loaded, last, calls, expression, tree, result>>

memVars == <<max_turns, conversation_history, clock, appended>>
botVars == <<model, collection, loaded>>
calcVars == <<expression, tree, result>>

Min(a, b) == IF a < b THEN a ELSE b
Max(a, b) == IF a > b THEN a ELSE b
Abs(a) == IF a < 0 THEN -a ELSE a

\* F applied to the value of v: v is evaluated once, however often F uses it
Let(v, F(_)) == CHOOSE r \in {F(x) : x \in {v}} : TRUE

(***************************************************************************)
(* Bounds of the model.                                                    *)
(***************************************************************************)
MaxTurnsBound == 2   \* SpecMemory: max_turns ranges over 0..MaxTurnsBound
MaxMemOps == 8       \* SpecMemory: number of add_message/clear calls in a run
MaxChats == 2        \* Spec: number of chat/reset_conversation calls in a run
MaxResets == 1       \* Spec: reset_conversation calls a run may add to those
MaxLongRun == 11     \* SpecLongRun: number of calls in a run
MaxStoreOps == 3     \* SpecStore: number of add_documents/load_from_file/query calls in a run

(***************************************************************************)
(* Memory (src/src/memory.py)                                              *)
(***************************************************************************)

\* Python's s[start:] for a list s: a negative start counts from the end,
\* and both ends are clamped.  Note that -0 = 0, so s[-0:] is all of s.
PySliceFrom(s, start) ==
    LET n == Len(s)
        i == IF start < 0 THEN Max(n + start, 0) ELSE Min(start, n)
    IN  SubSeq(s, i + 1, n)

Message(role, content, t) == [role |-> role, content |-> content, timestamp |-> t]

\* Memory.add_message: append, then keep the last max_turns * 2 messages.
add_message(history, maxTurns, role, content, t) ==
    LET h == Append(history, Message(role, content, t))
        max_messages == maxTurns * 2
    IN  IF Len(h) > max_messages THEN PySliceFrom(h, -max_messages) ELSE h

\* Memory.clear
clear == <<>>

\* Memory.get_turn_count
get_turn_count(history) == Len(history) \div 2

RECURSIVE JoinFrom(_, _)
JoinFrom(parts, i) ==
    IF i = Len(parts) THEN parts[i] ELSE parts[i] \o "\n" \o JoinFrom(parts, i + 1)

\* "\n".join(parts)
JoinLines(parts) == IF Len(parts) = 0 THEN "" ELSE JoinFrom(parts, 1)

\* Memory.get_context_string
get_context_string(history) ==
    IF history = <<>> THEN "No previous conversation."
    ELSE JoinLines([i \in 1..Len(history) |->
            (IF history[i].role = "user" THEN "User" ELSE "Jack")
                \o ": " \o history[i].content])

Roles == {"user", "assistant"}
MemContents == {"Hello Jack!"}

MemInit ==
    /\ max_turns \in 0..MaxTurnsBound
    /\ conversation_history = <<>>
    /\ clock = 0
    /\ appended = <<>>
    /\ calls = 0
    /\ model = "None"
    /\ collection = <<>>
    /\ loaded = <<>>
    /\ last = [op |-> "init"]
    /\ expression = <<>>
    /\ tree = [none |-> TRUE]
    /\ result = [op |-> "none"]

MemAdd(role, content) ==
    /\ calls < MaxMemOps
    /\ conversation_history' =
          add_message(conversation_history, max_turns, role, content, clock + 1)
    /\ clock' = clock + 1
    /\ appended' = Append(appended, Message(role, content, clock + 1))
    /\ calls' = calls + 1
    /\ last' = [op |-> "add_message"]
    /\ UNCHANGED <<max_turns, botVars, calcVars>>

MemClear ==
    /\ calls < MaxMemOps
    /\ conversation_history' = clear
    /\ appended' = <<>>
    /\ calls' = calls + 1
    /\ last' = [op |-> "clear"]
    /\ UNCHANGED <<max_turns, clock, botVars, calcVars>>

MemNext ==
    \/ \E role \in Roles, content \in MemContents : MemAdd(role, content)
    \/ MemClear

SpecMemory == MemInit /\ [][MemNext]_vars

(***************************************************************************)
(* C1: the number of retained messages never exceeds 2 * max_turns.        *)
(***************************************************************************)
WindowNeverExceedsCapacity ==
    Len(conversation_history) <= 2 * max_turns

\* The last n elements of s (all of s when it has fewer): the n most recent.
LastN(s, n) == SubSeq(s, Len(s) - Min(Len(s), Max(n, 0)) + 1, Len(s))

(***************************************************************************)
(* C2: after n consecutive add_message calls (none cleared in between) the *)
(* retained messages are exactly the last min(n, 2 * max_turns) appended   *)
(* ones, in the order they were appended.                                  *)
(***************************************************************************)
WindowIsMostRecentSuffix ==
    conversation_history = LastN(appended, Min(Len(appended), 2 * max_turns))

\* What the code does guarantee: with max_turns >= 1 the window is bounded and
\* holds the most recent messages; with max_turns = 0 nothing is ever evicted.
WindowBehaviourOfCode ==
    /\ max_turns >= 1 => /\ WindowNeverExceedsCapacity
                         /\ WindowIsMostRecentSuffix
    /\ max_turns = 0 => conversation_history = appended

(***************************************************************************)
(* Calculator (src/src/tools.py)                                           *)
(*                                                                         *)
(* Python numbers.  A value is a record [n, d, f, e]; f tells a float from *)
(* an int.                                                                 *)
(*   int     d = 1: the int n, exactly (|n| <= MaxAbs);                    *)
(*           d = 0: an int the model does not track: n and e are bounds on *)
(*           the number of its decimal digits, n at least and e at most    *)
(*           (MaxDigits + 1 as n: more than MaxDigits; as e: no bound);    *)
(*   float   d > 0, e = 0: the double that equals n/d (lowest terms, d a   *)
(*           power of two);                                                *)
(*           d > 0, e > 0: a double that is not known exactly: it is       *)
(*           non-zero, has the sign of n/d and differs from n/d by at most *)
(*           the fraction 2^(e-54) of it (e = 1 is one correct rounding);  *)
(*           d = -1: the negative zero -0.0;                               *)
(*           d = 0: NoExact, a float the model does not track (any double, *)
(*           an infinity or a nan included) or a complex number.           *)
(* An operation either returns (Computed), raises (Raised), or is outside  *)
(* what the model decides: UndeterminedError when it raises for certain    *)
(* but the exception is not tracked, Undetermined when it returns or       *)
(* raises (an OverflowError of a float operation, typically).              *)
(***************************************************************************)
MaxAbs == 30000   \* numerators and denominators are tracked within -MaxAbs..MaxAbs
MaxErr == 40      \* error levels are tracked up to MaxErr
MaxDepth == 100   \* expressions are evaluated for certain up to this nesting

RECURSIVE Gcd(_, _)
Gcd(a, b) == IF b = 0 THEN a ELSE Let(a % b, LAMBDA r : Gcd(b, r))

RECURSIVE Dyadic(_)
\* d is a power of two
Dyadic(d) == d = 1 \/ (d > 1 /\ d % 2 = 0 /\ Dyadic(d \div 2))

RECURSIVE Halvings(_, _)
\* the least a with big <= 2^a * small (small >= 1)
Halvings(big, small) ==
    IF big <= small THEN 0 ELSE 1 + Halvings((big + 1) \div 2, small)

MaxDigits == 4300  \* the default limit on the digits of an int in a conversion to or from str

RECURSIVE DigitCount(_)
\* the number of decimal digits of n >= 0
DigitCount(n) == IF n < 10 THEN 1 ELSE 1 + DigitCount(n \div 10)

NoExact == [n |-> 0, d |-> 0, f |-> TRUE, e |-> 0]

\* an int the model does not track, of lo to hi decimal digits
BigInt(lo, hi) ==
    [n |-> Min(lo, MaxDigits + 1), d |-> 0, f |-> FALSE, e |-> Min(hi, MaxDigits + 1)]

\* an int of which nothing is known
NoExactInt == BigInt(1, MaxDigits + 1)
IsBigInt(v) == v.d = 0 /\ ~v.f
NegZero == [n |-> 0, d |-> -1, f |-> TRUE, e |-> 0]
IsTracked(v) == v.d # 0
IsExact(v) == v.d # 0 /\ v.e = 0

\* The int n/d (d divides n), or the double nearest to n/d: that double is
\* n/d itself when d is a power of two, one rounding away from it otherwise.
Num(n, d, f) ==
    Let(Gcd(Abs(n), Abs(d)), LAMBDA g :
        Let(IF d < 0 THEN -1 ELSE 1, LAMBDA s :
            IF Abs(n \div g) > MaxAbs \/ Abs(d \div g) > MaxAbs
            THEN IF f THEN NoExact
                 ELSE BigInt(DigitCount(Abs(n \div g)), DigitCount(Abs(n \div g)))
            ELSE [n |-> s * (n \div g), d |-> s * (d \div g), f |-> f,
                  e |-> IF f /\ ~Dyadic(Abs(d \div g)) THEN 1 ELSE 0]))

\* A double within the fraction 2^(e-54) of n/d (n # 0 when e > 0)
Float(n, d, e) ==
    Let(Num(n, d, TRUE), LAMBDA v :
        IF ~IsTracked(v) THEN v
        ELSE IF Max(e, v.e) > MaxErr THEN NoExact
        ELSE [v EXCEPT !.e = Max(e, v.e)])

IntVal(n) == Num(n, 1, FALSE)
Zero(negative) == IF negative THEN NegZero ELSE Num(0, 1, TRUE)
IsZero(v) == IsTracked(v) /\ v.n = 0
IsNegative(v) == v.n < 0 \/ v.d < 0
IsIntegral(v) == v.d = 1 /\ v.e = 0

\* bounds on the number of decimal digits of an int
LeastDigits(v) == IF IsTracked(v) THEN DigitCount(Abs(v.n)) ELSE v.n
MostDigits(v) == IF IsTracked(v) THEN DigitCount(Abs(v.n)) ELSE v.e

\* the sum or difference of two ints, one of them not tracked: it has at
\* most one digit more than the longer operand, and at most one digit less
\* than an operand that is two digits longer than the other
BigSum(a, b) ==
    BigInt(IF LeastDigits(a) > MostDigits(b) + 1 /\ MostDigits(b) <= MaxDigits
           THEN LeastDigits(a) - 1
           ELSE IF LeastDigits(b) > MostDigits(a) + 1 /\ MostDigits(a) <= MaxDigits
           THEN LeastDigits(b) - 1
           ELSE 1,
           IF Max(MostDigits(a), MostDigits(b)) > MaxDigits THEN MaxDigits + 1
           ELSE Max(MostDigits(a), MostDigits(b)) + 1)

\* the product of two ints, one of them not tracked: zero with a zero
\* factor; else its digits are those of both factors together, or one less
\* (an int that is not tracked is not zero for certain when it has two
\* digits at least)
BigProduct(a, b) ==
    IF IsZero(a) \/ IsZero(b) THEN IntVal(0)
    ELSE BigInt(IF (IsTracked(a) \/ a.n >= 2) /\ (IsTracked(b) \/ b.n >= 2)
                THEN LeastDigits(a) + LeastDigits(b) - 1 ELSE 1,
                IF Max(MostDigits(a), MostDigits(b)) > MaxDigits THEN MaxDigits + 1
                ELSE MostDigits(a) + MostDigits(b))

Computed(v) == [ok |-> TRUE, v |-> v]
Raised(exc, msg) == [ok |-> FALSE, exc |-> exc, msg |-> msg]
Undetermined == Raised("<undetermined>", "<returns or raises>")
UndeterminedError == Raised("<undetermined>", "<raises>")

\* float(a) negated (the float of the int 0 is +0.0)
Negated(a) ==
    IF IsZero(a) THEN Zero(~IsNegative(a)) ELSE [a EXCEPT !.n = -a.n, !.f = TRUE]

\* float addition of two tracked values (IEEE 754, round to nearest)
FloatAdd(a, b) ==
    IF IsZero(a) /\ IsZero(b) THEN Zero(IsNegative(a) /\ IsNegative(b))
    ELSE IF IsZero(a) THEN [b EXCEPT !.f = TRUE]
    ELSE IF IsZero(b) THEN [a EXCEPT !.f = TRUE]
    ELSE Let(a.n * b.d + b.n * a.d, LAMBDA n :
            IF a.e = 0 /\ b.e = 0
            THEN IF n = 0 THEN Zero(FALSE) ELSE Float(n, a.d * b.d, 0)
            ELSE IF n = 0 THEN NoExact
            ELSE Float(n, a.d * b.d,
                       Max(a.e, b.e) + 2
                       + Halvings(Abs(a.n) * b.d + Abs(b.n) * a.d, Abs(n))))

\* operator.add, operator.sub, operator.mul.  Two ints give an int; with a
\* float the int is converted first (an OverflowError when too large), and
\* the float operation itself never raises.
PyAdd(a, b) ==
    IF ~a.f /\ ~b.f
    THEN Computed(IF IsTracked(a) /\ IsTracked(b) THEN IntVal(a.n + b.n) ELSE BigSum(a, b))
    ELSE IF IsBigInt(a) \/ IsBigInt(b) THEN Undetermined
    ELSE IF ~IsTracked(a) \/ ~IsTracked(b) THEN Computed(NoExact)
    ELSE Computed(FloatAdd(a, b))

PySub(a, b) ==
    IF ~a.f /\ ~b.f
    THEN Computed(IF IsTracked(a) /\ IsTracked(b) THEN IntVal(a.n - b.n) ELSE BigSum(a, b))
    ELSE IF IsBigInt(a) \/ IsBigInt(b) THEN Undetermined
    ELSE IF ~IsTracked(a) \/ ~IsTracked(b) THEN Computed(NoExact)
    ELSE Computed(FloatAdd(a, Negated(b)))

PyMul(a, b) ==
    IF ~a.f /\ ~b.f
    THEN Computed(IF IsTracked(a) /\ IsTracked(b) THEN IntVal(a.n * b.n) ELSE BigProduct(a, b))
    ELSE IF IsBigInt(a) \/ IsBigInt(b) THEN Undetermined
    ELSE IF ~IsTracked(a) \/ ~IsTracked(b) THEN Computed(NoExact)
    ELSE IF IsZero(a) \/ IsZero(b) THEN Computed(Zero(IsNegative(a) # IsNegative(b)))
    ELSE Computed(Float(a.n * b.n, a.d * b.d,
                        IF a.e = 0 /\ b.e = 0 THEN 0 ELSE Max(a.e, b.e) + 2))

\* operator.truediv: always a float.  A zero divisor raises
\* ZeroDivisionError, "division by zero" for two ints and "float division by
\* zero" otherwise; an int too large for a float raises OverflowError.
PyTrueDiv(a, b) ==
    IF IsZero(b)
    THEN IF ~a.f /\ ~b.f THEN Raised("ZeroDivisionError", "division by zero")
         ELSE IF IsTracked(a) THEN Raised("ZeroDivisionError", "float division by zero")
         ELSE UndeterminedError
    ELSE IF ~IsTracked(b) \/ IsBigInt(a) THEN Undetermined
    ELSE IF ~IsTracked(a) THEN Computed(NoExact)
    ELSE IF IsZero(a) THEN Computed(Zero(IsNegative(a) # IsNegative(b)))
    ELSE Computed(Float(a.n * b.d, a.d * b.n,
                        IF a.e = 0 /\ b.e = 0 THEN 0 ELSE Max(a.e, b.e) + 2))

RECURSIVE Power(_, _, _)
\* the pair <<n^k, d^k>> (k >= 0) by repeated squaring, <<0, 0>> once a
\* component leaves -MaxAbs..MaxAbs
Power(n, d, k) ==
    IF k = 0 THEN <<1, 1>>
    ELSE Let(Power(n, d, k \div 2), LAMBDA h :
            IF h[2] = 0 \/ Abs(h[1] * h[1]) > MaxAbs \/ h[2] * h[2] > MaxAbs THEN <<0, 0>>
            ELSE IF k % 2 = 0 THEN <<h[1] * h[1], h[2] * h[2]>>
            ELSE IF Abs(h[1] * h[1] * n) > MaxAbs \/ h[2] * h[2] * d > MaxAbs THEN <<0, 0>>
            ELSE <<h[1] * h[1] * n, h[2] * h[2] * d>>)

\* The power of an int that is not tracked, or whose power is not: a has
\* at least LeastDigits(a) - 1 and less than MostDigits(a) factors of ten,
\* a^k has k times as many; and 2^10 is more than 10^3.
BigPower(a, k) ==
    BigInt(Max((LeastDigits(a) - 1) * k,
               IF IsTracked(a) /\ Abs(a.n) >= 2 THEN 3 * (k \div 10) ELSE 0) + 1,
           IF MostDigits(a) > MaxDigits THEN MaxDigits + 1 ELSE MostDigits(a) * k)

\* int ** int with a non-negative exponent: an int
IntPow(a, k) ==
    IF k = 0 THEN IntVal(1)
    ELSE IF ~IsTracked(a) THEN BigPower(a, k)
    ELSE Let(Power(a.n, 1, k), LAMBDA p : IF p[2] = 0 THEN BigPower(a, k) ELSE IntVal(p[1]))

\* float pow of a tracked non-zero base a and a tracked exponent b that is a
\* non-zero whole number m, or a double within its rounding error of m.  The
\* libm result is within one unit in the last place, exact when the power is
\* a double; a result too large raises OverflowError.  The error of a
\* rounded base grows |m|-fold, the one of a rounded exponent |ln(a^m)|-fold
\* (less than 16-fold for a power within MaxAbs); a negative base with an
\* exponent that may be no whole number may give a complex number.
FloatPowInt(a, b) ==
    Let(IF b.n > 0 THEN Power(a.n, a.d, b.n)
        ELSE Power(IF a.n < 0 THEN -a.d ELSE a.d, Abs(a.n), -b.n), LAMBDA p :
        IF p[2] = 0
        THEN IF (b.n > 0) = (Abs(a.n) > a.d) THEN Undetermined ELSE Computed(NoExact)
        ELSE IF b.e > 0
        THEN IF a.n < 0 THEN Computed(NoExact)
             ELSE Computed(Float(p[1], p[2],
                                 Max(a.e + Halvings(Abs(b.n), 1), b.e + 4) + 2))
        ELSE Computed(Float(p[1], p[2],
                            IF a.e > 0 THEN a.e + Halvings(Abs(b.n), 1) + 2
                            ELSE IF Dyadic(p[2]) THEN 0 ELSE 2)))

\* float pow of two tracked values
FloatPow(a, b) ==
    IF IsZero(b) THEN Computed(Num(1, 1, TRUE))
    ELSE IF IsZero(a)
         THEN IF IsNegative(b)
              THEN Raised("ZeroDivisionError", "0.0 cannot be raised to a negative power")
              ELSE IF IsNegative(a) /\ b.d = 1 /\ b.e > 0 /\ b.n % 2 = 1
              THEN Computed(NoExact)
              ELSE Computed(Zero(IsNegative(a) /\ IsIntegral(b) /\ b.n % 2 = 1))
    ELSE IF b.d = 1 THEN FloatPowInt(a, b)
    ELSE IF Abs(b.n) <= b.d THEN Computed(NoExact)
    ELSE Undetermined

\* operator.pow: int ** non-negative int is an int; every other case is a
\* float pow, which raises ZeroDivisionError on a zero base with a negative
\* exponent, OverflowError on a result too large, and gives a complex number
\* for a negative base with a fractional exponent.
PyPow(a, b) ==
    IF ~a.f /\ ~b.f /\ IsTracked(b) /\ b.n >= 0
    THEN Computed(IntPow(a, b.n))
    ELSE IF ~IsTracked(a) \/ ~IsTracked(b) THEN Undetermined
    ELSE FloatPow(a, b)

\* operator.neg
PyNeg(a) ==
    Computed(IF ~IsTracked(a) THEN a
             ELSE IF ~a.f THEN IntVal(-a.n)
             ELSE IF IsZero(a) THEN Zero(~IsNegative(a))
             ELSE [a EXCEPT !.n = -a.n])

(***************************************************************************)
(* Characters.  A string is a sequence of one-character strings; the       *)
(* characters are those of Latin-1 (U+0000..U+00FF), the ones a string     *)
(* literal of this module can hold.                                        *)
(***************************************************************************)
VT == ""     \* U+000B, line tabulation
NEL == ""    \* U+0085, next line
NBSP == " "   \* U+00A0, no-break space

\* the characters str.isspace() holds of (the four after VT are the
\* separators U+001C..U+001F); str.strip() and the regular expression \s use
\* the same set
Whitespace == {" ", "\t", "\n", "\r", "\f", VT, "", "", "", "", NEL, NBSP}

At(cs, i) == IF i >= 1 /\ i <= Len(cs) THEN cs[i] ELSE "<end>"

\* str.strip() on a sequence of characters
RECURSIVE LStrip(_, _)
\* the position of the first character at or after i that is no whitespace
LStrip(cs, i) == IF i <= Len(cs) /\ cs[i] \in Whitespace THEN LStrip(cs, i + 1) ELSE i

RECURSIVE RStrip(_, _)
\* the position of the last character at or before j that is no whitespace
RStrip(cs, j) == IF j >= 1 /\ cs[j] \in Whitespace THEN RStrip(cs, j - 1) ELSE j

Strip(cs) == SubSeq(cs, LStrip(cs, 1), RStrip(cs, Len(cs)))

(***************************************************************************)
(* ast.parse(expression, mode='eval').  First Python's tokenizer: blanks,  *)
(* comments and line ends, numbers in every notation, names, and the       *)
(* operators of arithmetic; then its expression grammar over these tokens, *)
(* lowest precedence first:                                                *)
(*     or:      xor ('|' xor)*                                             *)
(*     xor:     and ('^' and)*                                             *)
(*     and:     shift ('&' shift)*                                         *)
(*     shift:   sum (('<<' | '>>') sum)*                                   *)
(*     sum:     term (('+' | '-') term)*                                   *)
(*     term:    factor (('*' | '/' | '//' | '%' | '@') factor)*            *)
(*     factor:  ('+' | '-' | '~') factor | power                           *)
(*     power:   primary ['**' factor]                                      *)
(*     primary: atom ('(' [['*' | '**'] or] ')' | '.' NAME)*               *)
(*     atom:    NUMBER | NAME | '(' or ')' | '(' ')' | '...'               *)
(* Only numbers, parentheses and these operators can make an expression    *)
(* the Calculator evaluates.  Any other token (a keyword, a comparison, a  *)
(* comma, a bracket, a quote, a character that is not ASCII, ...) makes    *)
(* the expression a syntax error or puts a node in its tree that _safe_eval *)
(* rejects: the Calculator fails for certain, and the model leaves open    *)
(* with which message ("UndeterminedError").  A backslash may continue a   *)
(* line, and the model decides nothing of it ("Undetermined").             *)
(***************************************************************************)
Digits == {"0", "1", "2", "3", "4", "5", "6", "7", "8", "9"}

DigitVal(c) ==
    CASE c = "0" -> 0 [] c = "1" -> 1 [] c = "2" -> 2 [] c = "3" -> 3
      [] c = "4" -> 4 [] c = "5" -> 5 [] c = "6" -> 6 [] c = "7" -> 7
      [] c = "8" -> 8 [] c = "9" -> 9
      [] c \in {"a", "A"} -> 10 [] c \in {"b", "B"} -> 11 [] c \in {"c", "C"} -> 12
      [] c \in {"d", "D"} -> 13 [] c \in {"e", "E"} -> 14 [] c \in {"f", "F"} -> 15

\* the characters of an identifier: it starts with a letter or an underscore
NameStart ==
    { "_",
      "a", "b", "c", "d", "e", "f", "g", "h", "i", "j", "k", "l", "m",
      "n", "o", "p", "q", "r", "s", "t", "u", "v", "w", "x", "y", "z",
      "A", "B", "C", "D", "E", "F", "G", "H", "I", "J", "K", "L", "M",
      "N", "O", "P", "Q", "R", "S", "T", "U", "V", "W", "X", "Y", "Z" }
NameChars == NameStart \cup Digits

\* keyword.kwlist
Keywords ==
    { <<"F", "a", "l", "s", "e">>,
      <<"N", "o", "n", "e">>,
      <<"T", "r", "u", "e">>,
      <<"a", "n", "d">>,
      <<"a", "s">>,
      <<"a", "s", "s", "e", "r", "t">>,
      <<"a", "s", "y", "n", "c">>,
      <<"a", "w", "a", "i", "t">>,
      <<"b", "r", "e", "a", "k">>,
      <<"c", "l", "a", "s", "s">>,
      <<"c", "o", "n", "t", "i", "n", "u", "e">>,
      <<"d", "e", "f">>,
      <<"d", "e", "l">>,
      <<"e", "l", "i", "f">>,
      <<"e", "l", "s", "e">>,
      <<"e", "x", "c", "e", "p", "t">>,
      <<"f", "i", "n", "a", "l", "l", "y">>,
      <<"f", "o", "r">>,
      <<"f", "r", "o", "m">>,
      <<"g", "l", "o", "b", "a", "l">>,
      <<"i", "f">>,
      <<"i", "m", "p", "o", "r", "t">>,
      <<"i", "n">>,
      <<"i", "s">>,
      <<"l", "a", "m", "b", "d", "a">>,
      <<"n", "o", "n", "l", "o", "c", "a", "l">>,
      <<"n", "o", "t">>,
      <<"o", "r">>,
      <<"p", "a", "s", "s">>,
      <<"r", "a", "i", "s", "e">>,
      <<"r", "e", "t", "u", "r", "n">>,
      <<"t", "r", "y">>,
      <<"w", "h", "i", "l", "e">>,
      <<"w", "i", "t", "h">>,
      <<"y", "i", "e", "l", "d">> }

\* the blanks between tokens, and the ends of a line (a lone carriage return
\* is read as a line feed)
TokenSpace == {" ", "\t", "\f"}
NewLines == {"\n", "\r"}

MAXLEVEL == 200    \* the tokenizer's limit on nested parentheses

RECURSIVE RunEnd(_, _, _)
\* the first position at or after i whose character is not in set
RunEnd(cs, i, set) ==
    IF i <= Len(cs) /\ cs[i] \in set THEN RunEnd(cs, i + 1, set) ELSE i

RECURSIVE CommentEnd(_, _)
\* the first position at or after i that holds a line end
CommentEnd(cs, i) ==
    IF i <= Len(cs) /\ cs[i] \notin NewLines THEN CommentEnd(cs, i + 1) ELSE i

RECURSIVE DigitsTail(_, _, _)
\* the end of the digits that start at cs[i]: runs of digits of the set with
\* single underscores between them; 0 when an underscore is followed by no
\* digit (a syntax error)
DigitsTail(cs, i, set) ==
    Let(RunEnd(cs, i, set), LAMBDA j :
        IF At(cs, j) # "_" THEN j
        ELSE IF At(cs, j + 1) \in set THEN DigitsTail(cs, j + 1, set) ELSE 0)

RECURSIVE DigitsValue(_, _, _, _, _)
\* the number the digits of cs[i..j-1] write in the base (underscores and the
\* point skipped), saturating above MaxAbs.  Leading zeros are passed over at
\* once, and a numeral of more than 16 digits after them is beyond MaxAbs in
\* any base.
DigitsValue(cs, i, j, base, acc) ==
    IF i >= j THEN acc
    ELSE IF acc = 0
    THEN Let({q \in i..(j - 1) : cs[q] \notin {"0", "_", "."}}, LAMBDA significant :
             IF significant = {} THEN 0
             ELSE Let(CHOOSE q \in significant : \A r \in significant : q <= r, LAMBDA first :
                      IF Cardinality({q \in first..(j - 1) : cs[q] \notin {"_", "."}}) > 16
                      THEN MaxAbs + 1
                      ELSE DigitsValue(cs, first + 1, j, base, DigitVal(cs[first]))))
    ELSE IF cs[i] \in {"_", "."} THEN DigitsValue(cs, i + 1, j, base, acc)
    ELSE DigitsValue(cs, i + 1, j, base, Min(acc * base + DigitVal(cs[i]), MaxAbs + 1))

RECURSIVE TenTo(_)
\* ten to the k, saturating above MaxAbs
TenTo(k) ==
    IF k = 0 THEN 1
    ELSE IF k > 9 THEN MaxAbs + 1
    ELSE Let(TenTo(k - 1), LAMBDA p : IF 10 * p > MaxAbs THEN MaxAbs + 1 ELSE 10 * p)

NumTok(v) == [k |-> "num", s |-> "", v |-> v]
NameTok == [k |-> "name", s |-> "", v |-> NoExact]
OpTok(s) == [k |-> "op", s |-> s, v |-> NoExact]

\* the characters U+0080..U+00FF
NonAscii ==
    { "", "", "", "", "", "", "", "", "", "", "", "", "", "", "", "",
      "", "", "", "", "", "", "", "", "", "", "", "", "", "", "", "",
      " ", "¡", "¢", "£", "¤", "¥", "¦", "§", "¨", "©", "ª", "«", "¬", "­", "®", "¯",
      "°", "±", "²", "³", "´", "µ", "¶", "·", "¸", "¹", "º", "»", "¼", "½", "¾", "¿",
      "À", "Á", "Â", "Ã", "Ä", "Å", "Æ", "Ç", "È", "É", "Ê", "Ë", "Ì", "Í", "Î", "Ï",
      "Ð", "Ñ", "Ò", "Ó", "Ô", "Õ", "Ö", "×", "Ø", "Ù", "Ú", "Û", "Ü", "Ý", "Þ", "ß",
      "à", "á", "â", "ã", "ä", "å", "æ", "ç", "è", "é", "ê", "ë", "ì", "í", "î", "ï",
      "ð", "ñ", "ò", "ó", "ô", "õ", "ö", "÷", "ø", "ù", "ú", "û", "ü", "ý", "þ", "ÿ" }

\* the tokenizer's lookahead: the word stands at cs[j], and no character
\* that may belong to a name (one that is not ASCII included) comes after it
WordAhead(cs, j, word) ==
    /\ \A k \in 1..Len(word) : At(cs, j + k - 1) = word[k]
    /\ At(cs, j + Len(word)) \notin NameChars \cup NonAscii

\* A number may be directly followed by one of the keywords and, else, for,
\* not, or, and by a name that starts with if, in or is (the tokenizer looks
\* no further than these two letters; such a name makes a syntax error of
\* the parser's).  Any other ASCII letter, digit or underscore right after
\* a number is a syntax error (invalid literal).
KeywordAhead(cs, j) ==
    \/ WordAhead(cs, j, <<"a", "n", "d">>)
    \/ WordAhead(cs, j, <<"e", "l", "s", "e">>)
    \/ WordAhead(cs, j, <<"f", "o", "r">>)
    \/ At(cs, j) = "i" /\ At(cs, j + 1) \in {"f", "n", "s"}
    \/ WordAhead(cs, j, <<"o", "r">>)
    \/ WordAhead(cs, j, <<"n", "o", "t">>)

EndsNumber(cs, j) == KeywordAhead(cs, j) \/ At(cs, j) \notin NameChars

\* The int the digits cs[i..j-1] write in the base.  One beyond MaxAbs is
\* known by the number s of its digits after the leading zeros: s decimal
\* digits; in a base that is a power of two, at least 2^(s-1) (2^10 is more
\* than 10^3) and less than 16^s (16 is less than 10^2).
IntLiteral(cs, i, j, base) ==
    Let(DigitsValue(cs, i, j, base, 0), LAMBDA whole :
        IF whole <= MaxAbs THEN IntVal(whole)
        ELSE Let(Cardinality({q \in (CHOOSE f \in i..(j - 1) :
                                        /\ cs[f] \notin {"0", "_"}
                                        /\ \A r \in i..(f - 1) : cs[r] \in {"0", "_"})..(j - 1) :
                                cs[q] # "_"}), LAMBDA s :
                IF base = 10 THEN BigInt(s, s)
                ELSE BigInt(3 * ((s - 1) \div 10) + 1, 2 * s)))

NumberAt(i, v) == [ok |-> TRUE, i |-> i, tok |-> NumTok(v), err |-> ""]
BadNumber(err) == [ok |-> FALSE, i |-> 0, tok |-> NumTok(NoExact), err |-> err]

\* 0x, 0o and 0b literals: the digits start at cs[i + 2], after an optional
\* underscore
LexRadix(cs, i, set, base) ==
    Let(IF At(cs, i + 2) = "_" THEN i + 3 ELSE i + 2, LAMBDA start :
        IF At(cs, start) \notin set THEN BadNumber("SyntaxError")
        ELSE Let(DigitsTail(cs, start, set), LAMBDA j :
                IF j = 0 \/ ~EndsNumber(cs, j) THEN BadNumber("SyntaxError")
                ELSE NumberAt(j, IntLiteral(cs, start, j, base))))

\* the end of the exponent that starts at cs[k]; k when cs[k] starts none; 0
\* when a sign is followed by no digit (a syntax error)
LexExponent(cs, k) ==
    IF At(cs, k) \notin {"e", "E"} THEN k
    ELSE IF At(cs, k + 1) \in {"+", "-"}
    THEN IF At(cs, k + 2) \in Digits THEN DigitsTail(cs, k + 2, Digits) ELSE 0
    ELSE IF At(cs, k + 1) \in Digits THEN DigitsTail(cs, k + 1, Digits)
    ELSE k

\* The double a float literal denotes: its digits cs[i..k-1], the point at j
\* (j = k without a fraction), the exponent cs[k..x-1].  The conversion
\* rounds correctly.
FloatLiteral(cs, i, j, k, x) ==
    Let(DigitsValue(cs, i, k, 10, 0), LAMBDA mantissa :
    Let(IF x = k THEN 0
        ELSE IF cs[k + 1] = "-" THEN -DigitsValue(cs, k + 2, x, 10, 0)
        ELSE IF cs[k + 1] = "+" THEN DigitsValue(cs, k + 2, x, 10, 0)
        ELSE DigitsValue(cs, k + 1, x, 10, 0), LAMBDA exponent :
    Let(exponent - Cardinality({q \in (j + 1)..(k - 1) : cs[q] \in Digits}), LAMBDA p :
        IF mantissa = 0 THEN Zero(FALSE)
        ELSE IF mantissa > MaxAbs \/ TenTo(Abs(p)) > MaxAbs THEN NoExact
        ELSE IF p >= 0 THEN Num(mantissa * TenTo(p), 1, TRUE)
        ELSE Num(mantissa, TenTo(-p), TRUE))))

\* The number token starting at cs[i] (a digit, or a '.' followed by a digit):
\* [ok, tok, i, err].  A decimal integer literal with a leading zero is a
\* syntax error unless all its digits are zeros; a float or imaginary literal
\* may start with zeros.  An imaginary literal is a complex number.  Whether
\* an integer literal of more than MaxDigits digits converts depends on the
\* interpreter's settings.
LexNumber(cs, i) ==
    IF cs[i] = "0" /\ At(cs, i + 1) \in {"x", "X"} THEN LexRadix(cs, i, Digits \cup {"a", "b", "c", "d", "e", "f",
                                         "A", "B", "C", "D", "E", "F"}, 16)
    ELSE IF cs[i] = "0" /\ At(cs, i + 1) \in {"o", "O"} THEN LexRadix(cs, i, {"0", "1", "2", "3", "4", "5", "6", "7"}, 8)
    ELSE IF cs[i] = "0" /\ At(cs, i + 1) \in {"b", "B"} THEN LexRadix(cs, i, {"0", "1"}, 2)
    ELSE
    Let(IF cs[i] = "." THEN i ELSE DigitsTail(cs, i, Digits), LAMBDA j :
        IF j = 0 THEN BadNumber("SyntaxError") ELSE
    Let(IF At(cs, j) # "." THEN j
        ELSE IF At(cs, j + 1) \in Digits THEN DigitsTail(cs, j + 1, Digits)
        ELSE j + 1, LAMBDA k :
        IF k = 0 THEN BadNumber("SyntaxError") ELSE
    Let(LexExponent(cs, k), LAMBDA x :
        IF x = 0 THEN BadNumber("SyntaxError") ELSE
    Let(IF At(cs, x) \in {"j", "J"} THEN x + 1 ELSE x, LAMBDA end :
        IF ~EndsNumber(cs, end) THEN BadNumber("SyntaxError")
        ELSE IF end > x THEN NumberAt(end, NoExact)
        ELSE IF x > j THEN NumberAt(end, FloatLiteral(cs, i, j, k, x))
        ELSE Let(DigitsValue(cs, i, j, 10, 0), LAMBDA whole :
                IF cs[i] = "0" /\ whole # 0 THEN BadNumber("SyntaxError")
                ELSE IF Cardinality({q \in i..(j - 1) : cs[q] \in Digits}) > MaxDigits THEN BadNumber("Undetermined")
                ELSE NumberAt(end, IntLiteral(cs, i, j, 10)))))))

Lexed(toks) == [ok |-> TRUE, toks |-> toks, err |-> ""]
LexError(err) == [ok |-> FALSE, toks |-> <<>>, err |-> err]

RECURSIVE Tokenize(_, _, _, _, _)
RECURSIVE Emit(_, _, _, _, _, _)

\* The token tok ends before position i.  After the line of the expression
\* has ended, any further token is a syntax error.
Emit(cs, i, acc, tok, level, ended) ==
    IF ended THEN LexError("SyntaxError")
    ELSE Tokenize(cs, i, Append(acc, tok), level, ended)

\* Python's tokenizer from position i on: [ok, toks, err].  level counts the
\* open parentheses; ended tells that a line holding tokens has ended outside
\* parentheses.  A line of blanks and comments is skipped; the first line
\* with a token must not be indented.  The cases exclude one another.
Tokenize(cs, i, acc, level, ended) ==
    CASE i > Len(cs) ->
            IF level > 0 THEN LexError("SyntaxError") ELSE Lexed(acc)
      [] At(cs, i) \in TokenSpace -> Tokenize(cs, i + 1, acc, level, ended)
      [] At(cs, i) = "#" -> Tokenize(cs, CommentEnd(cs, i), acc, level, ended)
      [] At(cs, i) \in NewLines /\ level > 0 -> Tokenize(cs, i + 1, acc, level, ended)
      [] At(cs, i) \in NewLines /\ level = 0 ->
            Let(RunEnd(cs, i + 1, TokenSpace), LAMBDA r :
                IF /\ acc = <<>> /\ r > i + 1 /\ cs[r - 1] # "\f"
                   /\ At(cs, r) \notin NewLines \cup {"#", "<end>"}
                THEN LexError("SyntaxError")
                ELSE Tokenize(cs, r, acc, level, ended \/ acc # <<>>))
      [] At(cs, i) \in Digits \/ (At(cs, i) = "." /\ At(cs, i + 1) \in Digits) ->
            Let(LexNumber(cs, i), LAMBDA n :
                IF n.ok THEN Emit(cs, n.i, acc, n.tok, level, ended) ELSE LexError(n.err))
      [] At(cs, i) \in NameStart ->
            Let(RunEnd(cs, i, NameChars), LAMBDA j :
                IF SubSeq(cs, i, j - 1) \in Keywords THEN LexError("UndeterminedError")
                ELSE Emit(cs, j, acc, NameTok, level, ended))
      [] At(cs, i) = "." /\ At(cs, i + 1) = "." /\ At(cs, i + 2) = "." ->
            Emit(cs, i + 3, acc, OpTok("..."), level, ended)
      [] At(cs, i) = "." /\ At(cs, i + 1) \notin Digits
                         /\ ~(At(cs, i + 1) = "." /\ At(cs, i + 2) = ".") ->
            Emit(cs, i + 1, acc, OpTok("."), level, ended)
      [] At(cs, i) \in {"*", "/", "<", ">"} /\ At(cs, i + 1) = At(cs, i) ->
            Emit(cs, i + 2, acc, OpTok(cs[i] \o cs[i]), level, ended)
      [] At(cs, i) \in {"*", "/"} /\ At(cs, i + 1) # At(cs, i) ->
            Emit(cs, i + 1, acc, OpTok(cs[i]), level, ended)
      [] At(cs, i) = "(" ->
            IF level >= MAXLEVEL THEN LexError("SyntaxError")
            ELSE Emit(cs, i + 1, acc, OpTok("("), level + 1, ended)
      [] At(cs, i) = ")" ->
            IF level = 0 THEN LexError("SyntaxError")
            ELSE Emit(cs, i + 1, acc, OpTok(")"), level - 1, ended)
      [] At(cs, i) \in {"+", "-", "%", "@", "^", "&", "|", "~"} ->
            Emit(cs, i + 1, acc, OpTok(cs[i]), level, ended)
      [] At(cs, i) = "\\" -> LexError("Undetermined")
      [] OTHER -> LexError("UndeterminedError")

\* AST nodes
NumNode(v) == [t |-> "Num", n |-> v]
BinOp(op, left, right) == [t |-> "BinOp", op |-> op, left |-> left, right |-> right]
UnaryOp(op, operand) == [t |-> "UnaryOp", op |-> op, operand |-> operand]
OtherNode(class) == [t |-> class]

Parsed(node, i) == [ok |-> TRUE, node |-> node, i |-> i]
ParseError(err) == [ok |-> FALSE, node |-> OtherNode(err), i |-> 0]
SyntaxError == ParseError("SyntaxError")

IsOp(toks, i, ops) == i <= Len(toks) /\ toks[i].k = "op" /\ toks[i].s \in ops
IsName(toks, i) == i <= Len(toks) /\ toks[i].k = "name"

\* the operators of each binary level, lowest precedence first
LevelOps(l) ==
    CASE l = 1 -> {"|"} [] l = 2 -> {"^"} [] l = 3 -> {"&"} [] l = 4 -> {"<<", ">>"}
      [] l = 5 -> {"+", "-"} [] l = 6 -> {"*", "/", "//", "%", "@"}

OpClass(s) ==
    CASE s = "|" -> "BitOr" [] s = "^" -> "BitXor" [] s = "&" -> "BitAnd"
      [] s = "<<" -> "LShift" [] s = ">>" -> "RShift"
      [] s = "+" -> "Add" [] s = "-" -> "Sub"
      [] s = "*" -> "Mult" [] s = "/" -> "Div" [] s = "//" -> "FloorDiv"
      [] s = "%" -> "Mod" [] s = "@" -> "MatMult"

UnaryClass(s) ==
    CASE s = "-" -> "USub" [] s = "+" -> "UAdd" [] s = "~" -> "Invert"

RECURSIVE ParseLevel(_, _, _)
RECURSIVE LevelLoop(_, _, _, _)
RECURSIVE ParseFactor(_, _)
RECURSIVE ParsePower(_, _)
RECURSIVE TrailerLoop(_, _, _)
RECURSIVE ParseAtom(_, _)

\* an expression of the binary operators of the levels l and higher, each
\* level left-associative; level 7 is a factor
ParseLevel(l, toks, i) ==
    IF l = 7 THEN ParseFactor(toks, i)
    ELSE Let(ParseFactor(toks, i), LAMBDA first :
            IF first.ok THEN LevelLoop(l, toks, first.node, first.i) ELSE first)

\* left is an operand of the level l or higher that ends before toks[i]: an
\* operator of a level m from l on takes it as its left operand, and an
\* expression of the levels above m as its right operand
LevelLoop(l, toks, left, i) ==
    IF \E m \in l..6 : IsOp(toks, i, LevelOps(m))
    THEN Let(ParseLevel((CHOOSE m \in l..6 : IsOp(toks, i, LevelOps(m))) + 1, toks, i + 1),
             LAMBDA right :
                 IF right.ok
                 THEN LevelLoop(l, toks, BinOp(OpClass(toks[i].s), left, right.node), right.i)
                 ELSE right)
    ELSE Parsed(left, i)

\* unary +, - and ~ bind tighter than * and /, looser than **
ParseFactor(toks, i) ==
    IF IsOp(toks, i, {"+", "-", "~"})
    THEN Let(ParseFactor(toks, i + 1), LAMBDA operand :
            IF operand.ok
            THEN Parsed(UnaryOp(UnaryClass(toks[i].s), operand.node), operand.i)
            ELSE operand)
    ELSE ParsePower(toks, i)

\* primary ['**' factor]: ** is right-associative and its right operand may
\* carry a sign; a primary is an atom and the trailers that follow it
ParsePower(toks, i) ==
    Let(ParseAtom(toks, i), LAMBDA atom :
        IF ~atom.ok THEN atom
        ELSE Let(TrailerLoop(toks, atom.node, atom.i), LAMBDA base :
                 IF base.ok /\ IsOp(toks, base.i, {"**"})
                 THEN Let(ParseFactor(toks, base.i + 1), LAMBDA exponent :
                         IF exponent.ok
                         THEN Parsed(BinOp("Pow", base.node, exponent.node), exponent.i)
                         ELSE exponent)
                 ELSE base))

\* a call: primary '(' [argument] ')', the argument possibly starred; an
\* attribute: primary '.' NAME
TrailerLoop(toks, node, i) ==
    IF IsOp(toks, i, {"."})
    THEN IF IsName(toks, i + 1) THEN TrailerLoop(toks, OtherNode("Attribute"), i + 2)
         ELSE SyntaxError
    ELSE IF IsOp(toks, i, {"("})
    THEN IF IsOp(toks, i + 1, {")"})
         THEN TrailerLoop(toks, OtherNode("Call"), i + 2)
         ELSE Let(ParseLevel(1, toks, IF IsOp(toks, i + 1, {"*", "**"}) THEN i + 2 ELSE i + 1),
                  LAMBDA arg :
                      IF arg.ok /\ IsOp(toks, arg.i, {")"})
                      THEN TrailerLoop(toks, OtherNode("Call"), arg.i + 1)
                      ELSE SyntaxError)
    ELSE Parsed(node, i)

\* a number, a name, the ellipsis, or an expression in parentheses
ParseAtom(toks, i) ==
    CASE IsOp(toks, i, {"("}) /\ ~IsOp(toks, i + 1, {")"}) ->
            Let(ParseLevel(1, toks, i + 1), LAMBDA inner :
                IF inner.ok /\ IsOp(toks, inner.i, {")"})
                THEN Parsed(inner.node, inner.i + 1)
                ELSE SyntaxError)
      [] IsOp(toks, i, {"("}) /\ IsOp(toks, i + 1, {")"}) -> Parsed(OtherNode("Tuple"), i + 2)
      [] IsOp(toks, i, {"..."}) -> Parsed(OtherNode("Constant"), i + 1)
      [] IsName(toks, i) -> Parsed(OtherNode("Name"), i + 1)
      [] i <= Len(toks) /\ toks[i].k = "num" -> Parsed(NumNode(toks[i].v), i + 1)
      [] OTHER -> SyntaxError

\* ast.parse(expression, mode='eval').body, or a SyntaxError
AstParse(cs) ==
    Let(Tokenize(cs, 1, <<>>, 0, FALSE), LAMBDA lexed :
        IF ~lexed.ok THEN ParseError(lexed.err)
        ELSE Let(ParseLevel(1, lexed.toks, 1), LAMBDA body :
                IF body.ok /\ body.i = Len(lexed.toks) + 1 THEN body ELSE SyntaxError))

(***************************************************************************)
(* Calculator._safe_eval, calculate, extract_and_calculate and             *)
(* format_calculator_response                                              *)
(***************************************************************************)
None == [none |-> TRUE]

\* Calculator.OPERATORS: the AST operator classes with an implementation
OPERATORS == {"Add", "Sub", "Mult", "Div", "Pow", "USub"}

\* A variant of ApplyBinary whose subtraction takes its operands in the wrong
\* order: CalculatorArithmetic must tell it from the code's.
ApplyBinary_SubSwapped(op, left, right) ==
    CASE op = "Add" -> PyAdd(left, right)
      [] op = "Sub" -> PySub(right, left)
      [] op = "Mult" -> PyMul(left, right)
      [] op = "Div" -> PyTrueDiv(left, right)
      [] op = "Pow" -> PyPow(left, right)
      [] op = "USub" ->
            Raised("TypeError", "_operator.neg() takes exactly one argument (2 given)")

\* the names of the functions of the operator module in OPERATORS
FunctionName(op) ==
    CASE op = "Add" -> "add" [] op = "Sub" -> "sub" [] op = "Mult" -> "mul"
      [] op = "Div" -> "truediv" [] op = "Pow" -> "pow" [] op = "USub" -> "neg"

\* OPERATORS[op](left, right)
ApplyBinary(op, left, right) ==
    CASE op = "Add" -> PyAdd(left, right)
      [] op = "Sub" -> PySub(left, right)
      [] op = "Mult" -> PyMul(left, right)
      [] op = "Div" -> PyTrueDiv(left, right)
      [] op = "Pow" -> PyPow(left, right)
      [] op = "USub" ->
            Raised("TypeError", "_operator.neg() takes exactly one argument (2 given)")

\* OPERATORS[op](operand)
ApplyUnary(op, operand) ==
    IF op = "USub" THEN PyNeg(operand)
    ELSE Raised("TypeError", FunctionName(op) \o " expected 2 arguments, got 1")

\* An outcome that is an exception for certain
Raises(outcome) == ~outcome.ok /\ outcome # Undetermined

\* The outcome of a step that follows the step with outcome first, when the
\* step itself raises: if the first step may have raised already, an
\* exception is certain and which one is open.
After(first, outcome) == IF first = Undetermined THEN UndeterminedError ELSE outcome

RECURSIVE _safe_eval(_)

\* A variant of _safe_eval that lets a unary plus through as the identity:
\* ForeignNodeIsRejected must tell it from the code's.
_safe_eval_UnaryPlusAllowed(node) ==
    IF node.t = "Num" THEN Computed(node.n)
    ELSE IF node.t = "BinOp"
    THEN Let(_safe_eval(node.left), LAMBDA left :
         IF Raises(left) THEN left
         ELSE Let(_safe_eval(node.right), LAMBDA right :
              IF Raises(right) THEN After(left, right)
              ELSE IF node.op \notin OPERATORS
              THEN After(left, After(right,
                   Raised("ValueError",
                          "Unsupported operation: <class 'ast." \o node.op \o "'>")))
              ELSE IF left = Undetermined \/ right = Undetermined THEN Undetermined
              ELSE ApplyBinary(node.op, left.v, right.v)))
    ELSE IF node.t = "UnaryOp"
    THEN Let(_safe_eval(node.operand), LAMBDA operand :
         IF Raises(operand) THEN operand
         ELSE IF node.op = "UAdd" THEN operand
         ELSE IF node.op \notin OPERATORS
         THEN After(operand,
              Raised("ValueError",
                     "Unsupported operation: <class 'ast." \o node.op \o "'>"))
         ELSE IF operand = Undetermined THEN Undetermined
         ELSE ApplyUnary(node.op, operand.v))
    ELSE Raised("ValueError", "Unsupported expression: <class 'ast." \o node.t \o "'>")

\* Both operands are evaluated before the operator is looked up, so an error
\* in an operand is raised before an unsupported operator is reported.  Where
\* a step is Undetermined the evaluation goes on as the code may: a later
\* step that raises makes the exception certain.
_safe_eval(node) ==
    IF node.t = "Num" THEN Computed(node.n)
    ELSE IF node.t = "BinOp"
    THEN Let(_safe_eval(node.left), LAMBDA left :
         IF Raises(left) THEN left
         ELSE Let(_safe_eval(node.right), LAMBDA right :
              IF Raises(right) THEN After(left, right)
              ELSE IF node.op \notin OPERATORS
              THEN After(left, After(right,
                   Raised("ValueError",
                          "Unsupported operation: <class 'ast." \o node.op \o "'>")))
              ELSE IF left = Undetermined \/ right = Undetermined THEN Undetermined
              ELSE ApplyBinary(node.op, left.v, right.v)))
    ELSE IF node.t = "UnaryOp"
    THEN Let(_safe_eval(node.operand), LAMBDA operand :
         IF Raises(operand) THEN operand
         ELSE IF node.op \notin OPERATORS
         THEN After(operand,
              Raised("ValueError",
                     "Unsupported operation: <class 'ast." \o node.op \o "'>"))
         ELSE IF operand = Undetermined THEN Undetermined
         ELSE ApplyUnary(node.op, operand.v))
    ELSE Raised("ValueError", "Unsupported expression: <class 'ast." \o node.t \o "'>")

RECURSIVE Applied(_)
\* the operator classes whose function _safe_eval(node) calls, op(left, right)
\* or op(operand), before it returns or raises (all it may call, where an
\* outcome is left open)
Applied(node) ==
    IF node.t = "BinOp"
    THEN Applied(node.left)
         \cup (IF ~Raises(_safe_eval(node.left))
               THEN Applied(node.right)
                    \cup (IF ~Raises(_safe_eval(node.right)) /\ node.op \in OPERATORS
                          THEN {node.op} ELSE {})
               ELSE {})
    ELSE IF node.t = "UnaryOp"
    THEN Applied(node.operand)
         \cup (IF ~Raises(_safe_eval(node.operand)) /\ node.op \in OPERATORS
               THEN {node.op} ELSE {})
    ELSE {}

Success(v) == [success |-> TRUE, result |-> v, error |-> "None"]
Failure(msg) == [success |-> FALSE, result |-> None, error |-> msg]

DivideByZeroError == "Cannot divide by zero, mate!"
InvalidExpressionPrefix == "Invalid expression: "

\* 'except Exception' catches every exception class but BaseException and
\* the classes derived from it alone
NonExceptions ==
    {"BaseException", "BaseExceptionGroup", "GeneratorExit", "KeyboardInterrupt", "SystemExit"}

Propagated(exc) == [propagates |-> exc]
IsResultDict(r) == DOMAIN r = {"success", "result", "error"}

\* What calculate returns where the model leaves the outcome open: a result
\* dict of either kind, or a failure dict with a message that is not tracked.
UndeterminedResult == [undetermined |-> "<returns a value or a failure>"]
UndeterminedFailure == [undetermined |-> "<returns a failure>"]

\* the result dicts an outcome of calculate stands for
Outcomes(r) ==
    IF "undetermined" \notin DOMAIN r THEN {r}
    ELSE (IF r = UndeterminedResult THEN {Success(NoExact), Success(NoExactInt)} ELSE {})
         \cup {Failure(DivideByZeroError),
               Failure(InvalidExpressionPrefix \o "<undetermined>")}

RECURSIVE Depth(_)
\* the height of a tree
Depth(node) ==
    IF node.t = "BinOp" THEN 1 + Max(Depth(node.left), Depth(node.right))
    ELSE IF node.t = "UnaryOp" THEN 1 + Depth(node.operand)
    ELSE 1

RECURSIVE ParenDepth(_, _, _, _)
\* the deepest nesting of parentheses in the tokens from i on
ParenDepth(toks, i, level, deepest) ==
    IF i > Len(toks) THEN deepest
    ELSE IF toks[i].s = "(" THEN ParenDepth(toks, i + 1, level + 1, Max(deepest, level + 1))
    ELSE IF toks[i].s = ")" THEN ParenDepth(toks, i + 1, level - 1, deepest)
    ELSE ParenDepth(toks, i + 1, level, deepest)

\* The parser and _safe_eval recurse on the nesting of the expression; a
\* nesting beyond MaxDepth may exhaust the interpreter's stack (a
\* RecursionError or MemoryError, which calculate reports as a failure).
TooDeep(cs, node) ==
    ParenDepth(Tokenize(cs, 1, <<>>, 0, FALSE).toks, 1, 0, 0) + Depth(node) > MaxDepth

\* the try block of calculate: strip, parse, evaluate
Evaluate(cs) ==
    Let(Strip(cs), LAMBDA stripped :
    Let(AstParse(stripped), LAMBDA parsed :
        IF parsed.ok
        THEN IF TooDeep(stripped, parsed.node)
             THEN IF Raises(_safe_eval(parsed.node)) THEN UndeterminedError
                  ELSE Undetermined
             ELSE _safe_eval(parsed.node)
        ELSE IF parsed.node.t = "SyntaxError" THEN Raised("SyntaxError", "<SyntaxError>")
        ELSE IF parsed.node.t = "UndeterminedError" THEN UndeterminedError
        ELSE Undetermined))

\* A variant of calculate without the 'except ZeroDivisionError' clause:
\* CalculateReturnsStructuredResult must tell it from the code's.
calculate_NoZeroDivisionClause(cs) ==
    Let(Evaluate(cs), LAMBDA value :
        IF value.ok THEN Success(value.v)
        ELSE IF value = Undetermined THEN UndeterminedResult
        ELSE IF value = UndeterminedError THEN UndeterminedFailure
        ELSE IF value.exc \notin NonExceptions
        THEN Failure(InvalidExpressionPrefix \o value.msg)
        ELSE Propagated(value.exc))

\* Calculator.calculate: the value, or the failure its except clauses make of
\* the exception.  The text of a SyntaxError is the parser's and is not
\* modelled: "<SyntaxError>" stands for it.
calculate(cs) ==
    Let(Evaluate(cs), LAMBDA value :
        IF value.ok THEN Success(value.v)
        ELSE IF value = Undetermined THEN UndeterminedResult
        ELSE IF value = UndeterminedError THEN UndeterminedFailure
        ELSE IF value.exc = "ZeroDivisionError" THEN Failure(DivideByZeroError)
        ELSE IF value.exc \notin NonExceptions
        THEN Failure(InvalidExpressionPrefix \o value.msg)
        ELSE Propagated(value.exc))

\* str.lower(), character by character: the 26 letters of ASCII and the 30
\* capital letters of Latin-1 (U+00C0..U+00DE but the multiplication sign)
LowerChar(c) ==
    CASE
         c = "A" -> "a" [] c = "B" -> "b" [] c = "C" -> "c" [] c = "D" -> "d"
      [] c = "E" -> "e" [] c = "F" -> "f" [] c = "G" -> "g" [] c = "H" -> "h"
      [] c = "I" -> "i" [] c = "J" -> "j" [] c = "K" -> "k" [] c = "L" -> "l"
      [] c = "M" -> "m" [] c = "N" -> "n" [] c = "O" -> "o" [] c = "P" -> "p"
      [] c = "Q" -> "q" [] c = "R" -> "r" [] c = "S" -> "s" [] c = "T" -> "t"
      [] c = "U" -> "u" [] c = "V" -> "v" [] c = "W" -> "w" [] c = "X" -> "x"
      [] c = "Y" -> "y" [] c = "Z" -> "z"
      [] c = "À" -> "à" [] c = "Á" -> "á" [] c = "Â" -> "â" [] c = "Ã" -> "ã"
      [] c = "Ä" -> "ä" [] c = "Å" -> "å" [] c = "Æ" -> "æ" [] c = "Ç" -> "ç"
      [] c = "È" -> "è" [] c = "É" -> "é" [] c = "Ê" -> "ê" [] c = "Ë" -> "ë"
      [] c = "Ì" -> "ì" [] c = "Í" -> "í" [] c = "Î" -> "î" [] c = "Ï" -> "ï"
      [] c = "Ð" -> "ð" [] c = "Ñ" -> "ñ" [] c = "Ò" -> "ò" [] c = "Ó" -> "ó"
      [] c = "Ô" -> "ô" [] c = "Õ" -> "õ" [] c = "Ö" -> "ö" [] c = "Ø" -> "ø"
      [] c = "Ù" -> "ù" [] c = "Ú" -> "ú" [] c = "Û" -> "û" [] c = "Ü" -> "ü"
      [] c = "Ý" -> "ý" [] c = "Þ" -> "þ"
      [] OTHER -> c

Lower(cs) == [i \in 1..Len(cs) |-> LowerChar(cs[i])]

\* the characters of the three trigger words
CALCULATE == <<"c", "a", "l", "c", "u", "l", "a", "t", "e">>
WHAT == <<"w", "h", "a", "t">>
IS == <<"i", "s">>
COMPUTE == <<"c", "o", "m", "p", "u", "t", "e">>

\* the patterns of extract_and_calculate, in order: each is its words, to be
\* separated by \s+, and followed by \s+([0-9+\-*/().^ ]+)
Patterns == << <<CALCULATE>>, <<WHAT, IS>>, <<COMPUTE>> >>

ExpressionChars == Digits \cup {"+", "-", "*", "/", "(", ")", ".", "^", " "}

HasAt(cs, i, word) ==
    /\ i + Len(word) - 1 <= Len(cs)
    /\ \A k \in 1..Len(word) : cs[i + k - 1] = word[k]

RECURSIVE MatchWords(_, _, _, _)
\* The pattern's words w, w+1, ... matched from position i on: the group captured, or
\* None.  Between words \s+ takes the whole run of whitespace; before the
\* group it is greedy and gives characters back until the group can start.
MatchWords(cs, i, words, w) ==
    IF ~HasAt(cs, i, words[w]) THEN None
    ELSE Let(i + Len(words[w]), LAMBDA q :
         Let(RunEnd(cs, q, Whitespace), LAMBDA e :
            IF e = q THEN None
            ELSE IF w < Len(words) THEN MatchWords(cs, e, words, w + 1)
            ELSE Let({g \in (q + 1)..e : g <= Len(cs) /\ cs[g] \in ExpressionChars},
                     LAMBDA starts :
                        IF starts = {} THEN None
                        ELSE Let(CHOOSE x \in starts : \A y \in starts : y <= x, LAMBDA g :
                                [none |-> FALSE,
                                 group |-> SubSeq(cs, g, RunEnd(cs, g, ExpressionChars) - 1)]))))

\* re.search(pattern, text): the match starting leftmost
ReSearch(words, cs) ==
    Let({i \in 1..Len(cs) : ~MatchWords(cs, i, words, 1).none}, LAMBDA hits :
        IF hits = {} THEN None
        ELSE MatchWords(cs, CHOOSE i \in hits : \A j \in hits : i <= j, words, 1))

RECURSIVE ReplaceCaret(_, _)
\* expression.replace('^', '**'), from position i on
ReplaceCaret(cs, i) ==
    IF i > Len(cs) THEN <<>>
    ELSE (IF cs[i] = "^" THEN <<"*", "*">> ELSE <<cs[i]>>) \o ReplaceCaret(cs, i + 1)

RECURSIVE FirstMatch(_, _, _)
\* the match of the first of the patterns k, k+1, ... that matches
FirstMatch(patterns, k, cs) ==
    IF k > Len(patterns) THEN None
    ELSE Let(ReSearch(patterns[k], cs), LAMBDA m :
            IF m.none THEN FirstMatch(patterns, k + 1, cs) ELSE m)

\* Calculator.extract_and_calculate: the first pattern that matches the
\* lowercased text gives the expression; None when no pattern matches.
extract_and_calculate(text) ==
    Let(Lower(text), LAMBDA lowered :
    Let(FirstMatch(Patterns, 1, lowered), LAMBDA m :
        IF m.none THEN None
        ELSE Let(Strip(m.group), LAMBDA stripped :
             Let(ReplaceCaret(stripped, 1), LAMBDA replaced : calculate(replaced)))))

DigitChar(n) ==
    CASE n = 0 -> "0" [] n = 1 -> "1" [] n = 2 -> "2" [] n = 3 -> "3" [] n = 4 -> "4"
      [] n = 5 -> "5" [] n = 6 -> "6" [] n = 7 -> "7" [] n = 8 -> "8" [] n = 9 -> "9"

RECURSIVE NatStr(_)
NatStr(n) == IF n < 10 THEN DigitChar(n) ELSE NatStr(n \div 10) \o DigitChar(n % 10)

RECURSIVE FracStr(_, _)
\* the decimal digits of the fraction r/d (r < d, d a power of two)
FracStr(r, d) ==
    IF r = 0 THEN ""
    ELSE DigitChar((r * 10) \div d) \o FracStr((r * 10) % d, d)

RECURSIVE Scientific(_, _, _)
\* n/d (0 < n/d < 1, d a power of two) in the notation repr gives a float
\* below 0.0001: the digits of n * 10^x / d, 'e-' and a two-digit x
Scientific(n, d, x) ==
    IF n < d THEN Scientific(n * 10, d, x + 1)
    ELSE NatStr(n \div d) \o (IF n % d = 0 THEN "" ELSE "." \o FracStr(n % d, d))
         \o "e-" \o (IF x < 10 THEN "0" ELSE "") \o NatStr(x)

IntMaxStrDigitsError ==
    "Exceeds the limit (4300 digits) for integer string conversion; "
    \o "use sys.set_int_max_str_digits() to increase the limit"

\* str(value), the conversion of the f-string.  An int in decimal; the
\* conversion of an int of more than MaxDigits digits raises ValueError.  A
\* float is printed with the fewest digits that read back as the same
\* double: for a double the model knows exactly these are all the digits of
\* its decimal expansion (25.0, 0.5, -0.25, 6.103515625e-05, -0.0).  For a
\* value the model does not know exactly a marker stands for the text; for
\* an int that may or may not have more than MaxDigits digits the outcome is
\* left open.
PyStr(v) ==
    IF IsBigInt(v)
    THEN IF v.n > MaxDigits THEN Raised("ValueError", IntMaxStrDigitsError)
         ELSE IF v.e <= MaxDigits THEN Computed("<int>")
         ELSE Undetermined
    ELSE IF ~IsTracked(v) THEN Computed("<float>")
    ELSE IF v.d < 0 THEN Computed("-0.0")
    ELSE LET sign == IF v.n < 0 THEN "-" ELSE ""
             whole == NatStr(Abs(v.n) \div v.d)
             r == Abs(v.n) % v.d
         IN  Computed(
             IF ~v.f THEN sign \o whole
             ELSE IF v.e > 0
             THEN "<float near " \o sign \o NatStr(Abs(v.n)) \o "/" \o NatStr(v.d) \o ">"
             ELSE IF r = 0 THEN sign \o whole \o ".0"
             ELSE IF Abs(v.n) * 10000 < v.d THEN sign \o Scientific(Abs(v.n), v.d, 0)
             ELSE sign \o whole \o "." \o FracStr(r, v.d))

\* format_calculator_response(result, pirate_style=True): the text, or the
\* exception str(value) raises.  Where calculate may have returned a value,
\* the value may be an int beyond the limit.
format_calculator_response(r) ==
    IF "undetermined" \in DOMAIN r
    THEN IF r = UndeterminedResult THEN Undetermined ELSE Computed(r.undetermined)
    ELSE IF r.success
    THEN Let(PyStr(r.result), LAMBDA value :
            IF value.ok
            THEN Computed("By me calculations, that be **" \o value.v \o "**, savvy?")
            ELSE value)
    ELSE Computed("Arr, there be a problem with yer sum: " \o r.error)

(***************************************************************************)
(* SpecCalc: the Calculator applied to every string of at most MaxExprLen  *)
(* characters over CalcAlphabet, to the expressions of the module's own    *)
(* test list (tools.py lines 155-163), and to the longer inputs of         *)
(* edge_expressions.                                                       *)
(***************************************************************************)
MaxExprLen == 4

CalcAlphabet == {"0", "2", "+", "-", "*", "/", "^", "(", ")", ".", " ", "a"}

RECURSIVE StringsUpTo(_)
StringsUpTo(n) ==
    IF n = 0 THEN {<<>>}
    ELSE LET shorter == StringsUpTo(n - 1)
         IN  shorter \cup {Append(cs, c) : cs \in {x \in shorter : Len(x) = n - 1},
                                           c \in CalcAlphabet}

test_expressions ==
    { <<"2", " ", "+", " ", "2">>,
      <<"1", "5", " ", "*", " ", "1", "2">>,
      <<"1", "0", "0", " ", "/", " ", "4">>,
      <<"2", " ", "*", "*", " ", "3">>,
      <<"1", "0", " ", "-", " ", "5", " ", "*", " ", "2">>,
      <<"1", "0", " ", "/", " ", "0">>,
      <<"(", "3", " ", "+", " ", "5", ")", " ", "*", " ", "2">> }

\* longer inputs where the order of evaluation, a negative or fractional
\* exponent, or a call decides the outcome; floats that round, signed zeros,
\* numbers beyond the range of a double; the notations of a number; white
\* space, line ends and comments; operators and expressions of Python that
\* OPERATORS does not hold
edge_expressions ==
    { <<"(", "2", "/", "0", ")", "^", "2">>,
      <<"+", "(", "2", "/", "0", ")">>,
      <<"2", "^", "(", "2", "/", "0", ")">>,
      <<"0", " ", "*", "*", " ", "-", "2">>,
      <<"2", " ", "*", "*", " ", "-", "2">>,
      <<"2", " ", "*", "*", " ", "0", ".", "5">>,
      <<"2", "(", "*", "*", "2", ")">>,
      <<"2", "/", "(", "2", "-", "2", ")">>,
      <<"2", "+", "2", "*", "a", "(", "0", ")">>,
      <<"(", "2", ")", ".", "a", " ", "-", " ", "2">>,
      <<"2", " ", "*", " ", "(", "+", "2", ")">>,
      <<"2", "/", "0", " ", "+", " ", "a">>,
      <<"0", ".", "1", "+", "0", ".", "2">>,
      <<"2", "/", "3", "-", "2", "/", "3">>,
      <<"0", "/", "-", "2">>,
      <<"-", "0", ".", "0">>,
      <<"2", "/", "0", ".", "0">>,
      <<"0", ".", "0", "/", "0">>,
      <<"0", ".", "0", "*", "*", "-", "2">>,
      <<"2", ".", "0", "*", "*", "2", "0", "0", "0">>,
      <<"2", "*", "*", "2", "0", "0", "0", "/", "0">>,
      <<"2", "*", "*", "2", "0", "0", "0", "+", "a">>,
      <<"1", "e", "3">>,
      <<"1", "_", "0">>,
      <<"0", "x", "1", "f">>,
      <<"0", "1">>,
      <<"2", "j">>,
      <<"2", ".", "5", "e", "-", "1">>,
      <<"\t", "2", " ", "+", "\f", "2", "\n">>,
      <<NBSP, "2", "+", "2", NEL>>,
      <<"2", VT, "+", "2">>,
      <<"(", "2", "\n", "+", "2", ")">>,
      <<"2", "\n", "+", "2">>,
      <<"2", " ", "#", " ", "a">>,
      <<"2", "\\", "\n", "+", "2">>,
      <<"~", "2">>,
      <<"2", "%", "2">>,
      <<"2", "/", "/", "2">>,
      <<"2", "<", "<", "2">>,
      <<"2", "|", "2">>,
      <<"2", "<", "2">>,
      <<"2", " ", "i", "f", " ", "2", " ", "e", "l", "s", "e", " ", "0">>,
      <<"2", ",", "2">> }

CalcInit ==
    /\ expression \in StringsUpTo(MaxExprLen) \cup test_expressions \cup edge_expressions
    /\ tree = None
    /\ result = [op |-> "none"]
    /\ max_turns = 0
    /\ conversation_history = <<>>
    /\ clock = 0
    /\ appended = <<>>
    /\ calls = 0
    /\ model = "None"
    /\ collection = <<>>
    /\ loaded = <<>>
    /\ last = [op |-> "init"]

\* calc.calculate(expression); where the model leaves the outcome open, any
\* of the result dicts it stands for
Calculate ==
    /\ result.op = "none"
    /\ \E returned \in Outcomes(calculate(expression)) :
           result' = [op |-> "calculate", returned |-> returned]
    /\ UNCHANGED <<memVars, botVars, last, calls, expression, tree>>

\* calc.extract_and_calculate("Calculate " + expression)
ExtractAndCalculate ==
    /\ result.op = "none"
    /\ \E returned \in Outcomes(extract_and_calculate(
                      <<"C", "a", "l", "c", "u", "l", "a", "t", "e", " ">> \o expression)) :
           result' = [op |-> "extract_and_calculate", returned |-> returned]
    /\ UNCHANGED <<memVars, botVars, last, calls, expression, tree>>

CalcNext == Calculate \/ ExtractAndCalculate

SpecCalc == CalcInit /\ [][CalcNext]_vars

(***************************************************************************)
(* SpecArith: the Calculator applied to arithmetic terms written the usual *)
(* way.  A term is a tree over integer literals, the five binary operators *)
(* and negation, with at most MaxOps operators; Render writes it with the  *)
(* parentheses the standard precedence needs (^ above * and /, above + and *)
(* -, the binary operators left-associative, ^ right-associative), the     *)
(* power operator written either "^" or "**".  MathValue is the term's     *)
(* value in exact rational arithmetic, computed on the tree.               *)
(***************************************************************************)
MaxOps == 2

Literals == {2, 3, 5, 10}
BinarySigns == {"+", "-", "*", "/", "^"}

Lit(n) == [t |-> "lit", n |-> n]
Bin(op, l, r) == [t |-> "bin", op |-> op, l |-> l, r |-> r]
Neg(x) == [t |-> "neg", x |-> x]

RECURSIVE TermsWith(_)
\* the terms with exactly k operators
TermsWith(k) ==
    IF k = 0 THEN {Lit(n) : n \in Literals}
    ELSE {Neg(x) : x \in TermsWith(k - 1)}
         \cup UNION {{Bin(op, l, r) : op \in BinarySigns,
                                      l \in TermsWith(i), r \in TermsWith(k - 1 - i)}
                     : i \in 0..(k - 1)}

\* the terms with at most k operators
TermsUpTo(k) == UNION {TermsWith(j) : j \in 0..k}

RECURSIVE HasPower(_)
HasPower(t) ==
    CASE t.t = "lit" -> FALSE
      [] t.t = "neg" -> HasPower(t.x)
      [] t.t = "bin" -> t.op = "^" \/ HasPower(t.l) \/ HasPower(t.r)

\* binding strength: + - below * / below negation below ^ below a literal
Strength(t) ==
    CASE t.t = "lit" -> 5
      [] t.t = "neg" -> 3
      [] t.t = "bin" -> IF t.op \in {"+", "-"} THEN 1
                        ELSE IF t.op \in {"*", "/"} THEN 2 ELSE 4

RECURSIVE NatChars(_)
NatChars(n) ==
    IF n < 10 THEN <<DigitChar(n)>> ELSE Append(NatChars(n \div 10), DigitChar(n % 10))

RECURSIVE Render(_, _)
RECURSIVE RenderOperand(_, _, _)

\* t in parentheses when paren, bare otherwise
RenderOperand(t, power, paren) ==
    IF paren THEN <<"(">> \o Render(t, power) \o <<")">> ELSE Render(t, power)

Render(t, power) ==
    CASE t.t = "lit" -> NatChars(t.n)
      [] t.t = "neg" -> <<"-">> \o RenderOperand(t.x, power, Strength(t.x) <= 3)
      [] t.t = "bin" /\ t.op = "^" ->
            RenderOperand(t.l, power, Strength(t.l) <= 4)
            \o <<" ">> \o power \o <<" ">>
            \o RenderOperand(t.r, power, Strength(t.r) <= 3)
      [] t.t = "bin" /\ t.op # "^" ->
            RenderOperand(t.l, power, Strength(t.l) < Strength(t))
            \o <<" ", t.op, " ">>
            \o RenderOperand(t.r, power, Strength(t.r) <= Strength(t) \/ t.r.t = "neg")

\* exact rationals <<n, d>>, d > 0, in lowest terms
Rat(n, d) ==
    Let(Gcd(Abs(n), Abs(d)), LAMBDA g :
        IF d < 0 THEN <<-(n \div g), -(d \div g)>> ELSE <<n \div g, d \div g>>)

Defined(q) == [def |-> TRUE, q |-> q]
Undefined == [def |-> FALSE, q |-> <<0, 1>>]
InRange(q) == Abs(q[1]) <= MaxAbs /\ q[2] <= MaxAbs
Within(q) == Let(q, LAMBDA v : IF InRange(v) THEN Defined(v) ELSE Undefined)

RatTimes(a, b) == Within(Rat(a[1] * b[1], a[2] * b[2]))

RECURSIVE RatPower(_, _)
\* q to the power k (k >= 0)
RatPower(q, k) ==
    IF k = 0 THEN Defined(<<1, 1>>)
    ELSE Let(RatPower(q, k \div 2), LAMBDA h :
            IF ~h.def THEN Undefined
            ELSE Let(RatTimes(h.q, h.q), LAMBDA sq :
                    IF ~sq.def THEN Undefined
                    ELSE IF k % 2 = 1 THEN RatTimes(sq.q, q) ELSE sq))

RECURSIVE MathValue(_)
\* The value of the term; undefined when it divides by zero, raises zero to a
\* negative power, has a fractional exponent, or leaves the exact range.
MathValue(t) ==
    IF t.t = "lit" THEN Defined(<<t.n, 1>>)
    ELSE IF t.t = "neg"
    THEN Let(MathValue(t.x), LAMBDA x :
            IF x.def THEN Defined(<<-x.q[1], x.q[2]>>) ELSE Undefined)
    ELSE Let(MathValue(t.l), LAMBDA a :
         Let(MathValue(t.r), LAMBDA b :
             IF ~a.def \/ ~b.def THEN Undefined
             ELSE CASE t.op = "+" ->
                         Within(Rat(a.q[1] * b.q[2] + b.q[1] * a.q[2], a.q[2] * b.q[2]))
                    [] t.op = "-" ->
                         Within(Rat(a.q[1] * b.q[2] - b.q[1] * a.q[2], a.q[2] * b.q[2]))
                    [] t.op = "*" -> Within(Rat(a.q[1] * b.q[1], a.q[2] * b.q[2]))
                    [] t.op = "/" ->
                         IF b.q[1] = 0 THEN Undefined
                         ELSE Within(Rat(a.q[1] * b.q[2], a.q[2] * b.q[1]))
                    [] t.op = "^" ->
                         IF b.q[2] # 1 THEN Undefined
                         ELSE IF b.q[1] >= 0 THEN RatPower(a.q, b.q[1])
                         ELSE IF a.q[1] = 0 THEN Undefined
                         ELSE RatPower(Rat(a.q[2], a.q[1]), -b.q[1])))

\* the term t handed to the Calculator as it is written with this power sign
Written(t, power) ==
    /\ power = <<"^">> => HasPower(t)
    /\ tree = [none |-> FALSE, term |-> t, caret |-> power = <<"^">>]
    /\ expression = Render(t, power)

\* every term with at most MaxOps operators: a literal, a negation, or a binary
\* operator over two terms that share the remaining operators
ArithInit ==
    /\ \E power \in {<<"*", "*">>, <<"^">>} :
          \/ \E t \in TermsWith(0) : Written(t, power)
          \/ /\ MaxOps >= 1
             /\ \E x \in TermsUpTo(MaxOps - 1) : Written(Neg(x), power)
          \/ /\ MaxOps >= 1
             /\ \E i \in 0..(MaxOps - 1) :
                   \E op \in BinarySigns, l \in TermsWith(i),
                      r \in TermsUpTo(MaxOps - 1 - i) :
                        Written(Bin(op, l, r), power)
    /\ result = [op |-> "none"]
    /\ max_turns = 0
    /\ conversation_history = <<>>
    /\ clock = 0
    /\ appended = <<>>
    /\ calls = 0
    /\ model = "None"
    /\ collection = <<>>
    /\ loaded = <<>>
    /\ last = [op |-> "init"]

SpecArith == ArithInit /\ [][CalcNext]_vars

(***************************************************************************)
(* VectorStore (src/src/vector_store.py).  The sentence-transformers model *)
(* and ChromaDB are collaborators: Embed is a fixed, deterministic table,  *)
(* the collection keeps its documents in insertion order and its query     *)
(* ranks them by squared Euclidean distance, the earlier document first on *)
(* a tie.                                                                  *)
(***************************************************************************)
test_docs ==
    << "Jack Sparrow is the captain of the Black Pearl.",
       "The Black Pearl is the fastest ship in the Caribbean.",
       "Jack's compass points to what you want most." >>

\* embedding_model.encode(text)
Embed(text) ==
    CASE text = test_docs[1] -> <<2, 0>>
      [] text = test_docs[2] -> <<2, 2>>
      [] text = test_docs[3] -> <<0, 2>>
      [] text = "Tell me about the Black Pearl" -> <<2, 1>>
      [] text = "What is love?" -> <<0, 1>>
      [] OTHER -> <<0, 0>>

Distance(a, b) == (a[1] - b[1]) * (a[1] - b[1]) + (a[2] - b[2]) * (a[2] - b[2])

\* VectorStore.add_documents: nothing for an empty list; otherwise every
\* document is embedded and added under the id doc_<i>, i counting from 0.
\* An id the collection already holds is not added again.
add_documents(coll, documents) ==
    IF documents = <<>> THEN coll
    ELSE LET entries == [i \in 1..Len(documents) |->
                            [id |-> "doc_" \o NatStr(i - 1),
                             document |-> documents[i],
                             embedding |-> Embed(documents[i])]]
         IN  coll \o SelectSeq(entries, LAMBDA e : \A j \in 1..Len(coll) : coll[j].id # e.id)

RECURSIVE Nearest(_, _, _)
\* the documents at the positions in left, nearest to q first
Nearest(coll, q, left) ==
    IF left = {} THEN <<>>
    ELSE LET best == CHOOSE i \in left : \A j \in left :
                        \/ Distance(coll[i].embedding, q) < Distance(coll[j].embedding, q)
                        \/ /\ Distance(coll[i].embedding, q) = Distance(coll[j].embedding, q)
                           /\ i <= j
         IN  <<coll[best].document>> \o Nearest(coll, q, left \ {best})

\* VectorStore.query: the n_results nearest documents (all of them when the
\* collection holds fewer), [] for an empty collection
query(coll, query_text, n_results) ==
    LET ranked == Nearest(coll, Embed(query_text), 1..Len(coll))
    IN  SubSeq(ranked, 1, Min(n_results, Len(ranked)))

\* A line of a knowledge-base file: its text between the surrounding white
\* space, and the white space itself (indentation, the newline).
FileLine(lead, text, trail) == [lead |-> lead, text |-> text, trail |-> trail]

\* line.strip()
StripLine(line) == line.text

\* [line.strip() for line in f if line.strip()]
FileDocuments(lines) ==
    LET kept == SelectSeq(lines, LAMBDA line : StripLine(line) # "")
    IN  [i \in 1..Len(kept) |-> StripLine(kept[i])]

NoFile == [exists |-> FALSE, lines |-> <<>>]
File(lines) == [exists |-> TRUE, lines |-> lines]

\* VectorStore.load_from_file: the non-blank lines go to add_documents; a
\* missing file is reported and leaves the store as it is
load_from_file(coll, file) ==
    IF ~file.exists THEN coll
    ELSE add_documents(coll, FileDocuments(file.lines))

\* the texts a collection holds, in insertion order
Documents(coll) == [i \in 1..Len(coll) |-> coll[i].document]

(***************************************************************************)
(* SpecStore: a VectorStore after construction (an empty collection of a   *)
(* fresh in-memory client), driven by add_documents, load_from_file and    *)
(* query.                                                                  *)
(***************************************************************************)
DefaultResults == 3   \* query(self, query_text, n_results: int = 3)

DocumentLists ==
    { <<>>,
      SubSeq(test_docs, 1, 1),
      <<test_docs[3], test_docs[2]>>,
      test_docs }

Files ==
    { NoFile,
      File(<<>>),
      File(<<FileLine("", "", "\n"), FileLine("  ", "", "\n")>>),
      File(<<FileLine("", test_docs[2], "\n"), FileLine("", "", "\n"),
             FileLine(" ", test_docs[3], "")>>) }

QueryTexts ==
    { "Hello!", "Tell me about the Black Pearl", "What is love?", test_docs[2] }

\* VectorStore.__init__
StoreInit ==
    /\ collection = <<>>
    /\ loaded = <<>>
    /\ calls = 0
    /\ last = [op |-> "init"]
    /\ model = "None"
    /\ max_turns = 0
    /\ conversation_history = <<>>
    /\ clock = 0
    /\ appended = <<>>
    /\ expression = <<>>
    /\ tree = [none |-> TRUE]
    /\ result = [op |-> "none"]

Loaded(documents) ==
    IF documents = <<>> THEN loaded ELSE Append(loaded, documents)

AddDocuments(documents) ==
    /\ calls < MaxStoreOps
    /\ collection' = add_documents(collection, documents)
    /\ loaded' = Loaded(documents)
    /\ last' = [op |-> "add_documents", documents |-> documents]
    /\ calls' = calls + 1
    /\ UNCHANGED <<memVars, model, calcVars>>

LoadFromFile(file) ==
    /\ calls < MaxStoreOps
    /\ collection' = load_from_file(collection, file)
    /\ loaded' = Loaded(FileDocuments(file.lines))
    /\ last' = [op |-> "load_from_file", documents |-> FileDocuments(file.lines)]
    /\ calls' = calls + 1
    /\ UNCHANGED <<memVars, model, calcVars>>

Query(query_text, n_results) ==
    /\ calls < MaxStoreOps
    /\ last' = [op |-> "query", query_text |-> query_text, n_results |-> n_results,
                returned |-> query(collection, query_text, n_results)]
    /\ calls' = calls + 1
    /\ UNCHANGED <<memVars, botVars, calcVars>>

StoreNext ==
    \/ \E documents \in DocumentLists : AddDocuments(documents)
    \/ \E file \in Files : LoadFromFile(file)
    \/ \E query_text \in QueryTexts, n_results \in 1..DefaultResults :
          Query(query_text, n_results)

SpecStore == StoreInit /\ [][StoreNext]_vars

(***************************************************************************)
(* SparrowBot (src/src/chatbot.py)                                         *)
(***************************************************************************)
MaxTurns == 10   \* Memory(max_turns=10)

UserMessages ==
    { "Hello!",
      "Tell me about the Black Pearl",
      "Calculate 2 ^ 3",
      "Calculate 10 ^ 4300",
      "What is 10 / 0",
      "compute  the odds",
      "What is love?" }

\* the characters of a user message
Chars(text) ==
    CASE
         text = "Hello!" ->
            <<"H", "e", "l", "l", "o", "!">>
      [] text = "Tell me about the Black Pearl" ->
            <<"T", "e", "l", "l", " ", "m", "e", " ", "a", "b", "o", "u", "t",
            " ", "t", "h", "e", " ", "B", "l", "a", "c", "k", " ",
            "P", "e", "a", "r", "l">>
      [] text = "Calculate 2 ^ 3" ->
            <<"C", "a", "l", "c", "u", "l", "a", "t", "e", " ", "2", " ", "^",
            " ", "3">>
      [] text = "Calculate 10 ^ 4300" ->
            <<"C", "a", "l", "c", "u", "l", "a", "t", "e", " ", "1", "0", " ", "^",
            " ", "4", "3", "0", "0">>
      [] text = "What is 10 / 0" ->
            <<"W", "h", "a", "t", " ", "i", "s", " ", "1", "0", " ", "/", " ",
            "0">>
      [] text = "compute  the odds" ->
            <<"c", "o", "m", "p", "u", "t", "e", " ", " ", "t", "h", "e", " ",
            "o", "d", "d", "s">>
      [] text = "What is love?" ->
            <<"W", "h", "a", "t", " ", "i", "s", " ", "l", "o", "v", "e",
            "?">>

OfflineTag == " [Offline Mode]"

templates ==
    << "Arr, me compass points to this fact: ",
       "By the powers! Did ye know? ",
       "Savvy? ",
       "The Black Pearl's logbook says: ",
       "Interesting... remarkably like this: ",
       "Aye, that reminds me of when " >>

fallbacks ==
    << "Arr! I be Cap'n Jack Sparrow!",
       "Why is the rum always gone?",
       "Did no one come to save me just because they missed me?",
       "I'm Captain Jack Sparrow. Savvy?",
       "Take what you can, give nothing back!",
       "Me compass is pointing to... rum!" >>

\* what the retrieval layer and the backend model can do in one call
RetrievalOutcomes == {"ok", "error"}
BackendFailures == {"Unauthenticated", "ResourceExhausted", "Other"}
BackendOutcomes == {"ok"} \cup BackendFailures
GeneratedTexts == {"Aye, that be the Black Pearl, savvy?"}
ErrorTexts == {"503 Service Unavailable"}

\* what str() of a result does whose number of digits the model leaves open
ConversionOutcomes == {"ok", "error"}

\* SparrowBot._check_for_calculation: None, the formatted response, or the
\* exception format_calculator_response raises
_check_for_calculation(user_message) ==
    Let(extract_and_calculate(Chars(user_message)), LAMBDA r :
        IF r = None THEN Computed(None)
        ELSE Let(format_calculator_response(r), LAMBDA response :
                IF response.ok THEN Computed([none |-> FALSE, text |-> response.v])
                ELSE response))

\* f"{i}. {fact}" for i, fact in enumerate(relevant_facts, 1)
NumberedFacts(facts) == [i \in 1..Len(facts) |-> NatStr(i) \o ". " \o facts[i]]

\* SparrowBot._build_context_prompt, given the facts retrieved
_build_context_prompt(history, relevant_facts, user_message) ==
    JoinLines(
        (IF relevant_facts # <<>>
         THEN <<"Relevant facts from your memory:">> \o NumberedFacts(relevant_facts)
         ELSE <<>>)
        \o (IF get_turn_count(history) > 0
            THEN <<"\nRecent conversation:", get_context_string(history)>>
            ELSE <<>>)
        \o <<"\nCurrent user message: " \o user_message>>)

\* A variant of the except clauses that answers an authentication failure with
\* the quota apology: BackendFailureYieldsItsOwnApology must tell it from the code's.
Apology_QuotaForAll(failure, text) ==
    CASE failure \in {"Unauthenticated", "ResourceExhausted"} ->
            "Blimey! I've talked too much. Need a moment to catch me breath (Quota exceeded)."
      [] OTHER -> "Curse the black spot! Something went wrong: " \o text

\* the except clauses of chat
Apology(failure, text) ==
    CASE failure = "Unauthenticated" ->
            "Arr! The Google guards blocked me. Check yer API key, savvy?"
      [] failure = "ResourceExhausted" ->
            "Blimey! I've talked too much. Need a moment to catch me breath (Quota exceeded)."
      [] OTHER -> "Curse the black spot! Something went wrong: " \o text

\* what one call of chat did: the path it took, what it returned (or that an
\* exception left it), and how often it called the index and the backend
Did(message, path, outcome, value, queries, retrieval, backend_calls, backend, prompt) ==
    [op |-> "chat", message |-> message, path |-> path, outcome |-> outcome,
     value |-> value, queries |-> queries, retrieval |-> retrieval,
     backend_calls |-> backend_calls, backend |-> backend, prompt |-> prompt]

\* the arithmetic path of chat
ChatCalculation(h, t, user_message, calc_response) ==
    [history |-> add_message(h, MaxTurns, "assistant", calc_response, t + 1),
     clock |-> t + 1,
     last |-> Did(user_message, "calculation", "returned", calc_response,
                  0, "none", 0, "none", "")]

\* the arithmetic path of chat when format_calculator_response raises:
\* nothing catches the exception, and the user's message stays in Memory
ChatCalculationRaised(h, t, user_message) ==
    [history |-> h, clock |-> t,
     last |-> Did(user_message, "calculation", "raised", "", 0, "none", 0, "none", "")]

\* A variant of the offline reply without the tag: OfflineRepliesOverIndexAreTagged
\* must tell it from the code's.
OfflineReply_Untagged(response) == response

\* the reply of the offline path
OfflineReply(response) == response \o OfflineTag

\* A variant of the offline path that fills a template even when no fact was
\* found: OfflineRepliesOverEmptyIndexAreFallbacks must tell it from the code's.
ChatOffline_TemplateAlways(h, t, user_message, coll, retrieval, choice) ==
    IF retrieval = "error"
    THEN [history |-> h, clock |-> t,
          last |-> Did(user_message, "offline", "raised", "", 1, "error", 0, "none", "")]
    ELSE LET facts == query(coll, user_message, 1)
             response == templates[choice] \o (IF facts # <<>> THEN facts[1] ELSE "")
         IN  [history |-> add_message(h, MaxTurns, "assistant", OfflineReply(response), t + 1),
              clock |-> t + 1,
              last |-> Did(user_message, "offline", "returned", OfflineReply(response),
                           1, "ok", 0, "none", "")]

\* the offline path of chat: one fact into a random template, or a random
\* fallback line; an exception of the retrieval layer is not caught
ChatOffline(h, t, user_message, coll, retrieval, choice) ==
    IF retrieval = "error"
    THEN [history |-> h, clock |-> t,
          last |-> Did(user_message, "offline", "raised", "", 1, "error", 0, "none", "")]
    ELSE LET facts == query(coll, user_message, 1)
             response == IF facts # <<>> THEN templates[choice] \o facts[1]
                         ELSE fallbacks[choice]
         IN  [history |-> add_message(h, MaxTurns, "assistant", OfflineReply(response), t + 1),
              clock |-> t + 1,
              last |-> Did(user_message, "offline", "returned", OfflineReply(response),
                           1, "ok", 0, "none", "")]

\* the online path of chat: the prompt is built outside the try block, the
\* backend is called once inside it
ChatOnline(h, t, user_message, coll, retrieval, backend, text) ==
    IF retrieval = "error"
    THEN [history |-> h, clock |-> t,
          last |-> Did(user_message, "online", "raised", "", 1, "error", 0, "none", "")]
    ELSE LET context_prompt ==
                 _build_context_prompt(h, query(coll, user_message, 2), user_message)
         IN  IF backend = "ok"
             THEN [history |-> add_message(h, MaxTurns, "assistant", text, t + 1),
                   clock |-> t + 1,
                   last |-> Did(user_message, "online", "returned", text,
                                1, "ok", 1, "ok", context_prompt)]
             ELSE [history |-> h, clock |-> t,
                   last |-> Did(user_message, "online", "returned", Apology(backend, text),
                                1, "ok", 1, backend, context_prompt)]

\* SparrowBot.chat.  conversion decides a calculator response the model
\* leaves open; "<calculator response>" stands for its text.
chat(history, t, mdl, coll, user_message, retrieval, backend, choice, text, conversion) ==
    Let(add_message(history, MaxTurns, "user", user_message, t + 1), LAMBDA h :
    Let(_check_for_calculation(user_message), LAMBDA calc_response :
        IF Raises(calc_response) \/ (calc_response = Undetermined /\ conversion = "error")
        THEN ChatCalculationRaised(h, t + 1, user_message)
        ELSE IF calc_response = Undetermined
        THEN ChatCalculation(h, t + 1, user_message, "<calculator response>")
        ELSE IF ~calc_response.v.none /\ calc_response.v.text # ""
        THEN ChatCalculation(h, t + 1, user_message, calc_response.v.text)
        ELSE IF mdl = "None"
        THEN ChatOffline(h, t + 1, user_message, coll, retrieval, choice)
        ELSE ChatOnline(h, t + 1, user_message, coll, retrieval, backend, text)))

\* the knowledge bases a SparrowBot may be built over: no file or an empty
\* one, one fact, three facts
KnowledgeBases == {<<>>, SubSeq(test_docs, 1, 1), test_docs}

\* SparrowBot.__init__
Init ==
    /\ model \in {"None", "Gemini"}
    /\ \E kb \in KnowledgeBases :
          /\ collection = add_documents(<<>>, kb)
          /\ loaded = IF kb = <<>> THEN <<>> ELSE <<kb>>
    /\ max_turns = MaxTurns
    /\ conversation_history = <<>>
    /\ clock = 0
    /\ appended = <<>>
    /\ calls = 0
    /\ last = [op |-> "init"]
    /\ expression = <<>>
    /\ tree = None
    /\ result = [op |-> "none"]

\* one call of SparrowBot.chat
ChatCall(user_message, retrieval, backend, choice, text, conversion) ==
    /\ LET done == chat(conversation_history, clock, model, collection,
                        user_message, retrieval, backend, choice, text, conversion)
       IN  /\ conversation_history' = done.history
           /\ clock' = done.clock
           /\ last' = done.last
    /\ calls' = calls + 1
    /\ UNCHANGED <<max_turns, appended, botVars, calcVars>>

Chat(user_message, retrieval, backend, choice, text, conversion) ==
    /\ calls < MaxChats
    /\ ChatCall(user_message, retrieval, backend, choice, text, conversion)

\* what one call of reset_conversation did: how many messages it dropped,
\* and which call came before it
DidReset(history, before) ==
    [op |-> "reset_conversation", dropped |-> Len(history), previous |-> before.op]

\* A variant of reset_conversation that keeps the last exchange:
\* ResetIsIdempotent must tell it from the code's.
ResetConversation_KeepsLastTurn ==
    /\ calls < MaxChats + MaxResets
    /\ conversation_history' = PySliceFrom(conversation_history, -2)
    /\ last' = DidReset(conversation_history, last)
    /\ calls' = calls + 1
    /\ UNCHANGED <<max_turns, clock, appended, botVars, calcVars>>

\* SparrowBot.reset_conversation: Memory.clear()
ResetConversation ==
    /\ calls < MaxChats + MaxResets
    /\ conversation_history' = clear
    /\ last' = DidReset(conversation_history, last)
    /\ calls' = calls + 1
    /\ UNCHANGED <<max_turns, clock, appended, botVars, calcVars>>

Next ==
    \/ \E user_message \in UserMessages, retrieval \in RetrievalOutcomes,
          backend \in BackendOutcomes, choice \in 1..Len(templates),
          text \in GeneratedTexts \cup ErrorTexts, conversion \in ConversionOutcomes :
            /\ backend = "ok" <=> text \in GeneratedTexts
            /\ model = "None" => backend = "ok"   \* no backend: none to fail
            /\ model # "None" => choice = 1       \* a backend: nothing drawn at random
            /\ conversion = "error" => _check_for_calculation(user_message) = Undetermined
            /\ Chat(user_message, retrieval, backend, choice, text, conversion)
    \/ ResetConversation

Spec == Init /\ [][Next]_vars

\* the runs of a SparrowBot in which no backend call fails
NextBackendUp ==
    \/ \E user_message \in UserMessages, retrieval \in RetrievalOutcomes,
          choice \in 1..Len(templates), text \in GeneratedTexts,
          conversion \in ConversionOutcomes :
            /\ model # "None" => choice = 1
            /\ conversion = "error" => _check_for_calculation(user_message) = Undetermined
            /\ Chat(user_message, retrieval, "ok", choice, text, conversion)
    \/ ResetConversation

SpecBackendUp == Init /\ [][NextBackendUp]_vars

\* Long runs of a SparrowBot over sums: enough turns for the sliding window
\* to evict.  The arithmetic path of chat consults neither the index, nor
\* the backend, nor random.choice, and the responses to these sums are
\* known: the other arguments of the call change nothing.
LongRunMessages == {"Calculate 2 ^ 3", "What is 10 / 0"}

LongRunNext ==
    \/ \E user_message \in LongRunMessages, text \in GeneratedTexts :
          /\ calls < MaxLongRun
          /\ ChatCall(user_message, "ok", "ok", 1, text, "ok")
    \/ /\ calls < MaxLongRun
       /\ conversation_history' = clear
       /\ last' = DidReset(conversation_history, last)
       /\ calls' = calls + 1
       /\ UNCHANGED <<max_turns, clock, appended, botVars, calcVars>>

SpecLongRun == Init /\ [][LongRunNext]_vars

(***************************************************************************)
(* Properties of SparrowBot.chat, stated on the state right after a call   *)
(* (last.op = "chat").                                                     *)
(***************************************************************************)

\* the message matches one of the arithmetic triggers
HasTrigger(message) == ~FirstMatch(Patterns, 1, Lower(Chars(message))).none

\* what format_calculator_response does with the result of a message that
\* has a trigger: the response, or the exception
CalculatorResponse(message) ==
    format_calculator_response(extract_and_calculate(Chars(message)))

\* the last n messages of Memory
Recent(n) == LastN(conversation_history, n)

(***************************************************************************)
(* C3: whenever the user message matches an arithmetic trigger, whether    *)
(* the evaluation succeeds or fails, chat returns the formatted calculator *)
(* response, Memory ends with the user message followed by that response   *)
(* as the assistant message, and the call invokes neither the retrieval    *)
(* index nor the backend model.                                            *)
(***************************************************************************)
CalculationBypassesRetrievalAndBackend ==
    (last.op = "chat" /\ HasTrigger(last.message)) =>
        /\ last.outcome = "returned"
        /\ CalculatorResponse(last.message).ok
        /\ last.value = CalculatorResponse(last.message).v
        /\ Recent(2) = << Message("user", last.message, clock - 1),
                          Message("assistant", last.value, clock) >>
        /\ last.queries = 0
        /\ last.backend_calls = 0

\* What the code does: the sum bypasses the index and the backend, and its
\* response is recorded and returned unless formatting it raises (the result
\* is an int of more than MaxDigits digits); then the exception leaves chat
\* and the user's message stays the last one in Memory.
CalculationAnsweredUnlessFormattingRaises ==
    (last.op = "chat" /\ HasTrigger(last.message)) =>
        /\ last.queries = 0
        /\ last.backend_calls = 0
        /\ IF CalculatorResponse(last.message).ok
           THEN /\ last.outcome = "returned"
                /\ last.value = CalculatorResponse(last.message).v
                /\ Recent(2) = << Message("user", last.message, clock - 1),
                                  Message("assistant", last.value, clock) >>
           ELSE /\ last.outcome = "raised"
                /\ CalculatorResponse(last.message) = Raised("ValueError", IntMaxStrDigitsError)
                /\ Recent(1) = << Message("user", last.message, clock) >>

\* a power of more than MaxDigits digits: the exception leaves chat
CalculationRaised ==
    /\ last.op = "chat"
    /\ last.message = "Calculate 10 ^ 4300"
    /\ last.outcome = "raised"
    /\ last.queries = 0

\* a sum that fails, asked of a bot with a backend and a loaded index
CalculationFailureAnsweredLocally ==
    /\ last.op = "chat"
    /\ last.message = "What is 10 / 0"
    /\ model = "Gemini"
    /\ collection # <<>>
    /\ last.value = "Arr, there be a problem with yer sum: Cannot divide by zero, mate!"
    /\ last.queries = 0
    /\ last.backend_calls = 0

(***************************************************************************)
(* C4: when the backend model call fails, chat still returns a string, and *)
(* the string returned for the failure's category (Unauthenticated,        *)
(* ResourceExhausted, Other) differs from the string either other category *)
(* yields.                                                                 *)
(***************************************************************************)
BackendFailureYieldsItsOwnApology ==
    (last.op = "chat" /\ last.backend \in BackendFailures) =>
        /\ last.outcome = "returned"
        /\ last.value # ""
        /\ \A other \in BackendFailures \ {last.backend}, text \in ErrorTexts :
              last.value # Apology(other, text)

\* an authentication failure answered with the API-key apology
UnauthenticatedAnswered ==
    /\ last.op = "chat"
    /\ last.backend = "Unauthenticated"
    /\ last.outcome = "returned"
    /\ last.value = "Arr! The Google guards blocked me. Check yer API key, savvy?"

(***************************************************************************)
(* C5: a failure of the retrieval layer (the embedding or the index query  *)
(* raising) during chat, online or offline, never escapes chat: chat       *)
(* returns normally.                                                       *)
(***************************************************************************)
RetrievalFailureNeverEscapes ==
    (last.op = "chat" /\ last.retrieval = "error") => last.outcome = "returned"

\* the replies the offline path can make over the collection: a fact in a
\* template, or a fallback line, followed by the offline tag
TaggedFacts ==
    {templates[i] \o collection[j].document \o OfflineTag :
        i \in 1..Len(templates), j \in 1..Len(collection)}

TaggedFallbacks == {fallbacks[i] \o OfflineTag : i \in 1..Len(fallbacks)}

\* every string chat can return before any tag is put on it
UntaggedReplies ==
    {templates[i] \o collection[j].document :
        i \in 1..Len(templates), j \in 1..Len(collection)}
    \cup {fallbacks[i] : i \in 1..Len(fallbacks)}
    \cup {CalculatorResponse(m).v :
             m \in {x \in UserMessages : HasTrigger(x) /\ CalculatorResponse(x).ok}}
    \cup GeneratedTexts
    \cup {Apology(failure, text) : failure \in BackendFailures, text \in ErrorTexts}

CarriesOfflineTag(value) == \E reply \in UntaggedReplies : value = reply \o OfflineTag

(***************************************************************************)
(* C6, as stated: with no backend configured and a non-empty index, every  *)
(* string chat returns, for every user message, carries the offline tag.   *)
(***************************************************************************)
EveryOfflineReplyOverIndexIsTagged ==
    (last.op = "chat" /\ model = "None" /\ collection # <<>>
        /\ last.outcome = "returned") => CarriesOfflineTag(last.value)

(***************************************************************************)
(* C6, amended: with no backend configured and a non-empty index, every    *)
(* string chat returns for a message without an arithmetic trigger is a    *)
(* template filled with a stored fact, followed by the offline tag; for a  *)
(* message with an arithmetic trigger it is the calculator response, which *)
(* carries no tag.                                                         *)
(***************************************************************************)
OfflineRepliesOverIndexAreTagged ==
    (last.op = "chat" /\ model = "None" /\ collection # <<>>
        /\ last.outcome = "returned") =>
        IF HasTrigger(last.message)
        THEN /\ last.value = CalculatorResponse(last.message).v
             /\ ~CarriesOfflineTag(last.value)
        ELSE last.value \in TaggedFacts

\* an offline reply over a loaded index: the nearest fact in a template, tagged
OfflineFactReturned ==
    /\ last.op = "chat"
    /\ model = "None"
    /\ Len(collection) = 3
    /\ last.message = "What is love?"
    /\ last.value = "Savvy? Jack's compass points to what you want most. [Offline Mode]"

(***************************************************************************)
(* C7, as stated: with no backend configured and an empty index, every     *)
(* response chat returns, for every user message, is drawn from the fixed  *)
(* set of fallback lines (with or without the offline tag after it).       *)
(***************************************************************************)
EveryOfflineReplyOverEmptyIndexIsFallback ==
    (last.op = "chat" /\ model = "None" /\ collection = <<>>
        /\ last.outcome = "returned") =>
        last.value \in {fallbacks[i] : i \in 1..Len(fallbacks)} \cup TaggedFallbacks

(***************************************************************************)
(* C7, amended: with no backend configured and an empty index, every       *)
(* response chat returns for a message without an arithmetic trigger is    *)
(* one of the fallback lines followed by the offline tag; for a message    *)
(* with an arithmetic trigger it is the calculator response.               *)
(***************************************************************************)
OfflineRepliesOverEmptyIndexAreFallbacks ==
    (last.op = "chat" /\ model = "None" /\ collection = <<>>
        /\ last.outcome = "returned") =>
        IF HasTrigger(last.message)
        THEN last.value = CalculatorResponse(last.message).v
        ELSE last.value \in TaggedFallbacks

\* an offline reply over an empty index: a fallback line, tagged
OfflineFallbackReturned ==
    /\ last.op = "chat"
    /\ model = "None"
    /\ collection = <<>>
    /\ last.message = "What is love?"
    /\ last.value = "Why is the rum always gone? [Offline Mode]"

(***************************************************************************)
(* C8: every chat call stores its reply in Memory: when chat returns, the  *)
(* last message in Memory has role assistant and its content is the string *)
(* returned, on the arithmetic, the offline and the backend path alike.    *)
(***************************************************************************)
ReplyIsStoredInMemory ==
    (last.op = "chat" /\ last.outcome = "returned") =>
        /\ conversation_history # <<>>
        /\ conversation_history[Len(conversation_history)].role = "assistant"
        /\ conversation_history[Len(conversation_history)].content = last.value

\* What the code does: the reply is stored unless the backend call failed;
\* then the apology is returned and the user's message stays the last one.
ReplyIsStoredUnlessBackendFails ==
    (last.op = "chat" /\ last.outcome = "returned") =>
        IF last.backend \in BackendFailures
        THEN Recent(1) = << Message("user", last.message, clock) >>
        ELSE Recent(1) = << Message("assistant", last.value, clock) >>

(***************************************************************************)
(* Properties of the Calculator.                                           *)
(***************************************************************************)

\* The result dict holds the rational q as Python's arithmetic gives it: the
\* int q; or the double q, or a double within the rounding error of q, a
\* zero of either sign for 0; or, where rounded operands cancel, a float the
\* model does not track in place of 0.
ResultEquals(r, q) ==
    /\ r.success
    /\ IF IsTracked(r.result) THEN <<r.result.n, Abs(r.result.d)>> = q
       ELSE r.result = NoExact /\ q = <<0, 1>>

UnsupportedBitXor == "Invalid expression: Unsupported operation: <class 'ast.BitXor'>"

(***************************************************************************)
(* C9, as stated: for every valid arithmetic string built from integer     *)
(* literals, + - * / ^ and parentheses, calculate returns a success result *)
(* whose value is the mathematically correct one under standard            *)
(* precedence.                                                             *)
(***************************************************************************)
CalculateGivesMathematicalValue ==
    (result.op = "calculate" /\ MathValue(tree.term).def) =>
        ResultEquals(result.returned, MathValue(tree.term).q)

(***************************************************************************)
(* C9, amended: for every arithmetic string built from integer literals, + *)
(* - * /, the power operator and parentheses, whose value is defined and   *)
(* that stays within the limits of the Python interpreter (its nesting and *)
(* the size of its numbers: every float that arises within the range of a  *)
(* double), calculate returns a success result with the value the          *)
(* expression has under standard precedence when the power operator is     *)
(* written **: the exact int where only ints arise, and where a division   *)
(* or a negative exponent makes a float, the value in double arithmetic,   *)
(* which is the mathematical value up to the rounding of each operation.   *)
(* Written ^, the power is computed only by extract_and_calculate, which   *)
(* rewrites ^ to **, and calculate itself returns the failure "Unsupported *)
(* operation: BitXor".                                                     *)
(***************************************************************************)
CalculatorArithmetic ==
    (result.op # "none" /\ MathValue(tree.term).def) =>
        IF result.op = "calculate" /\ tree.caret
        THEN result.returned = Failure(UnsupportedBitXor)
        ELSE ResultEquals(result.returned, MathValue(tree.term).q)

\* "10 - 5 * 2" is 0, and "2 ^ 3" is 8 once extract_and_calculate has rewritten it
PrecedenceHonoured ==
    \/ /\ result.op = "calculate"
       /\ expression = <<"1", "0", " ", "-", " ", "5", " ", "*", " ", "2">>
       /\ result.returned = Success(IntVal(0))
    \/ /\ result.op = "extract_and_calculate"
       /\ expression = <<"2", " ", "^", " ", "3">>
       /\ result.returned = Success(IntVal(8))

(***************************************************************************)
(* C10: calculate never raises: for every input string it returns a result *)
(* dict, with success False and the division-by-zero error whenever the    *)
(* evaluation divides by zero (e.g. "10 / 0"), success False and an        *)
(* invalid-expression error on any other failure, and success True with    *)
(* the value otherwise.                                                    *)
(***************************************************************************)
CalculateReturnsStructuredResult ==
    result.op = "calculate" =>
        LET r == result.returned
            value == Evaluate(expression)
        IN  /\ IsResultDict(r)
            /\ value.ok => r.success /\ r.result = value.v /\ r.error = "None"
            /\ (Raises(value) /\ value.exc = "ZeroDivisionError") =>
                  ~r.success /\ r.result = None /\ r.error = "Cannot divide by zero, mate!"
            /\ (Raises(value) /\ value.exc \notin {"ZeroDivisionError", "<undetermined>"}) =>
                  ~r.success /\ r.result = None /\ r.error = "Invalid expression: " \o value.msg
            /\ value = UndeterminedError =>
                  /\ ~r.success /\ r.result = None
                  /\ r.error \in {"Cannot divide by zero, mate!",
                                  "Invalid expression: <undetermined>"}
            /\ value = Undetermined =>
                  IF r.success THEN ~IsTracked(r.result) /\ r.error = "None"
                  ELSE /\ r.result = None
                       /\ r.error \in {"Cannot divide by zero, mate!",
                                       "Invalid expression: <undetermined>"}
            /\ expression = <<"1", "0", " ", "/", " ", "0">> =>
                  r.error = "Cannot divide by zero, mate!"

\* the division by zero of the module's own test list
DivisionByZeroReported ==
    /\ result.op = "calculate"
    /\ expression = <<"1", "0", " ", "/", " ", "0">>
    /\ result.returned = [success |-> FALSE, result |-> None,
                          error |-> "Cannot divide by zero, mate!"]

\* the operators the Calculator is to apply, by the kind of node
BinaryWhitelist == {"Add", "Sub", "Mult", "Div", "Pow"}
UnaryWhitelist == {"USub"}

RECURSIVE HasForeignNode(_)
\* the tree holds a node that is no numeric literal, no binary + - * / **
\* and no unary negation
HasForeignNode(node) ==
    IF node.t = "Num" THEN FALSE
    ELSE IF node.t = "BinOp"
    THEN node.op \notin BinaryWhitelist
         \/ HasForeignNode(node.left) \/ HasForeignNode(node.right)
    ELSE IF node.t = "UnaryOp"
    THEN node.op \notin UnaryWhitelist \/ HasForeignNode(node.operand)
    ELSE TRUE

(***************************************************************************)
(* C11: for every expression whose parse tree holds a node outside         *)
(* {numeric literal, binary + - * / power, unary negation}, wherever in    *)
(* the tree it occurs, calculate returns a failure result, and the only    *)
(* operations it applies on the way are the five arithmetic operators and  *)
(* unary negation.                                                         *)
(***************************************************************************)
ForeignNodeIsRejected ==
    result.op = "calculate" =>
        Let(AstParse(Strip(expression)), LAMBDA parsed :
            (parsed.ok /\ HasForeignNode(parsed.node)) =>
                /\ ~result.returned.success
                /\ result.returned.result = None
                /\ Applied(parsed.node) \subseteq BinaryWhitelist \cup UnaryWhitelist)

\* a call deep in the right operand, after a sum was applied on the left
ForeignCallRejected ==
    /\ result.op = "calculate"
    /\ expression = <<"2", "+", "2", "*", "a", "(", "0", ")">>
    /\ result.returned =
          Failure("Invalid expression: Unsupported expression: <class 'ast.Call'>")

(***************************************************************************)
(* Properties of the VectorStore, stated on the state right after a call   *)
(* under SpecStore.                                                        *)
(***************************************************************************)
Elements(seq) == {seq[i] : i \in 1..Len(seq)}

\* C12: loading replaces the prior contents of the index.  After a load of a
\* non-empty document list the collection holds exactly the documents of that
\* list, and a query returns only documents of the list loaded last.
LoadReplacesPriorContents ==
    /\ (last.op \in {"add_documents", "load_from_file"} /\ last.documents # <<>>) =>
            Elements(Documents(collection)) = Elements(last.documents)
    /\ (last.op = "query" /\ loaded # <<>>) =>
            Elements(last.returned) \subseteq Elements(loaded[Len(loaded)])

\* the positions of a collection from which a query result r may have come:
\* r[i] is the document at position at[i], no position is used twice
Placements(coll, r) ==
    {at \in [1..Len(r) -> 1..Len(coll)] :
        /\ \A i \in 1..Len(r) : coll[at[i]].document = r[i]
        /\ \A i, j \in 1..Len(r) : i # j => at[i] # at[j]}

\* position i of the collection comes before position j in a ranking for the
\* embedding q: nearer first, the earlier position first at equal distance
RanksBefore(coll, q, i, j) ==
    \/ Distance(coll[i].embedding, q) < Distance(coll[j].embedding, q)
    \/ /\ Distance(coll[i].embedding, q) = Distance(coll[j].embedding, q)
       /\ i < j

\* What VectorStore.query returns when the collection ranks by exact distance
\* and puts the earlier document first among equally distant ones: at most
\* n_results stored documents, best first, none left out for a worse one, and
\* nothing for an empty collection.  (The ranking is the collection's, not the
\* code's: this checks the model of query against its description.)
QueryReturnsNearestInOrder ==
    last.op = "query" =>
        /\ Len(last.returned) = Min(last.n_results, Len(collection))
        /\ \E at \in Placements(collection, last.returned) :
              /\ \A i, j \in 1..Len(last.returned) :
                    i < j => RanksBefore(collection, Embed(last.query_text), at[i], at[j])
              /\ \A i \in 1..Len(last.returned), k \in 1..Len(collection) :
                    (\A j \in 1..Len(last.returned) : at[j] # k) =>
                        RanksBefore(collection, Embed(last.query_text), at[i], k)

(***************************************************************************)
(* Properties of SparrowBot.reset_conversation.                            *)
(***************************************************************************)

\* C14: reset_conversation is idempotent.  Whatever Memory holds, a call
\* returns and leaves it empty; a call that follows another call returns,
\* leaves Memory empty again and changes nothing of the bot's state, so the
\* state after two calls is the state after one.
ResetIsIdempotent ==
    [][last'.op = "reset_conversation" =>
          /\ conversation_history' = <<>>
          /\ last.op = "reset_conversation" =>
                /\ last'.dropped = 0
                /\ UNCHANGED <<memVars, botVars>>]_vars

\* two calls in a row, the first of them over a Memory that held messages
ResetTwiceAfterChat ==
    /\ last.op = "reset_conversation"
    /\ last.previous = "reset_conversation"
    /\ clock > 0
    /\ conversation_history = <<>>

(***************************************************************************)
(* Properties of a whole turn of SparrowBot.                               *)
(***************************************************************************)

\* C15: a chat call invokes the backend model at most once: not at all when
\* the message has an arithmetic trigger or no backend is configured, exactly
\* once otherwise; a failure of that one call is not retried and is answered
\* by one apology, which is what the call returns.
BackendInvokedOncePerTurn ==
    last.op = "chat" =>
        /\ last.backend_calls =
              IF HasTrigger(last.message) \/ model = "None" THEN 0 ELSE 1
        /\ last.backend \in BackendFailures =>
              /\ last.outcome = "returned"
              /\ \E text \in ErrorTexts : last.value = Apology(last.backend, text)

\* What the code does: the backend is called once on the backend path unless
\* the retrieval layer raised first, and then not at all.
BackendInvokedOnceUnlessRetrievalRaises ==
    last.op = "chat" =>
        /\ last.backend_calls =
              IF HasTrigger(last.message) \/ model = "None" \/ last.retrieval = "error"
              THEN 0 ELSE 1
        /\ last.backend \in BackendFailures =>
              /\ last.outcome = "returned"
              /\ \E text \in ErrorTexts : last.value = Apology(last.backend, text)

\* C16: as long as no backend call fails, Memory of a SparrowBot (capacity
\* 20 messages) holds, between calls, an even number of messages whose roles
\* alternate user, assistant, beginning with a user message.
MemoryAlternatesBetweenCalls ==
    /\ max_turns * 2 = 20
    /\ Len(conversation_history) <= 20
    /\ Len(conversation_history) % 2 = 0
    /\ \A i \in 1..Len(conversation_history) :
          conversation_history[i].role = IF i % 2 = 1 THEN "user" ELSE "assistant"

\* What the code does when neither the backend nor the retrieval layer fails,
\* over runs long enough for the window to evict: the same, and the window
\* holds the most recent messages without a gap.
MemoryAlternatesWhenNothingFails ==
    /\ MemoryAlternatesBetweenCalls
    /\ \A i \in 1..(Len(conversation_history) - 1) :
          conversation_history[i + 1].timestamp = conversation_history[i].timestamp + 1
    /\ last.op = "chat" =>
          conversation_history[Len(conversation_history)].timestamp = clock

\* the window has evicted the first exchange of the conversation
FirstExchangeEvicted ==
    /\ Len(conversation_history) = 20
    /\ conversation_history[1].timestamp = 3

=============================================================================
